---- MODULE Spec2Model ----
(***************************************************************************)
(* A model of the domain-server control plane of                           *)
(* domain-server/src/DomainServer.cpp: the node registry with its          *)
(* pairwise session secrets, the static-assignment queue, the ICE          *)
(* heartbeat / metaverse address-update engine, the entities-file swap,    *)
(* the packet filter and the HTTP route table.                             *)
(***************************************************************************)
EXTENDS Integers, Sequences, FiniteSets, TLC

VARIABLES
    nodes,                   \* LimitedNodeList: UUID -> Node + DomainServerNodeData
    uuidCounter,             \* how many assignment UUIDs QUuid::createUuid() has made
    assignments,             \* heap of Assignment objects: object id -> fields
    allAssignments,          \* _allAssignments: QHash key UUID -> object id
    unfulfilledAssignments,  \* _unfulfilledAssignments: QQueue of object ids
    pendingAssignedNodes,    \* gatekeeper: clone UUID -> assignment UUID
    packetVerdict,           \* the packet the filter saw last and what it did with it
    sent,                    \* the datagrams the last step of the registry sent
    disallowed,              \* the sender the last step logged as disallowed, if any
    crashed,                 \* the process has terminated abnormally
    ice,                     \* the ICE heartbeat and metaverse address-update members
    meta,                    \* the metaverse heartbeat: domain type, timer, attempts, requests
    files,                   \* the entities file and its .replace sibling on disk
    swap,                    \* the process's position in the content replacement, and
                             \* whether it refused the last upload as invalid
    web,                     \* the HTTP server: settings, sessions, last request and response
    received,                \* the peers: what each live node was sent about its live peers
    denialsInARow            \* the ice-server: the denials it has answered in a row

registryVars == <<nodes, uuidCounter, assignments, allAssignments, unfulfilledAssignments,
                  pendingAssignedNodes, packetVerdict, sent, disallowed, crashed>>

swapVars == <<files, swap>>

\* what the peers and the ice-server hold
observers == <<received, denialsInARow>>

vars == <<registryVars, ice, meta, swapVars, web, observers>>

-----------------------------------------------------------------------------
(* Bounds of the model *)

MaxAgents == 2        \* distinct UUIDs interface clients connect under
MaxUuids == 3         \* assignment and clone UUIDs generated after startup
MaxIceAddresses == 2  \* addresses the ice-server host name resolves to
MaxRetryTimers == 1   \* pending single-shot timers of one kind
MaxSetups == 2        \* runs of setupICEHeartbeatForFullNetworking
MaxScenes == 2        \* distinct scenes an administrator uploads
MaxScripts == 1       \* scripts uploaded through POST /assignment
MaxWebSessions == 1   \* OAuth state UUIDs and session cookies handed out

(* QUuid() : the null UUID *)
NullUuid == 0

AgentUuids == 1..MaxAgents
\* UUIDs made by QUuid::createUuid() for assignments and their clones
GeneratedUuid(k) == MaxAgents + k
\* QUuid::createUuid(): a UUID never generated before, used being those that were
FreshUuid(used) == GeneratedUuid(Cardinality(used) + 1)

NodeTypes == {"Agent", "AudioMixer", "AvatarMixer"}
AssignmentTypes == {"AudioMixerType", "AvatarMixerType", "AgentType"}

\* interest lists a connect / list request may declare
InterestSets == { {}, {"Agent", "AvatarMixer"}, {"AudioMixer"} }

\* sender addresses (IPv4, dotted quad)
Addresses == { <<127, 0, 0, 1>>, <<10, 0, 0, 5>>, <<192, 168, 1, 7>>, <<8, 8, 4, 4>> }
\* the address each interface client connects from, and the one local workers use
AgentAddress(uuid) == IF uuid = 1 THEN <<10, 0, 0, 5>> ELSE <<8, 8, 4, 4>>
WorkerAddress == <<127, 0, 0, 1>>

NullAddress == <<0, 0, 0, 0>>

\* _acSubnetWhitelist: localhost, and the one subnet the settings list under
\* security.ac_subnet_whitelist
AcSubnetWhitelist == { [ip |-> <<127, 0, 0, 1>>, netmask |-> 32],
                       [ip |-> <<192, 168, 0, 0>>, netmask |-> 16] }

\* the bits of the i-th octet that a netmask of the given length covers
maskBits(netmask, i) ==
    IF netmask >= 8 * i THEN 8 ELSE IF netmask <= 8 * (i - 1) THEN 0 ELSE netmask - 8 * (i - 1)

\* QHostAddress::isInSubnet: the leading netmask bits of both addresses agree
isInSubnet(addr, subnet) ==
    /\ subnet.netmask \in 0..32
    /\ \A i \in 1..4 : addr[i] \div 2^(8 - maskBits(subnet.netmask, i))
                          = subnet.ip[i] \div 2^(8 - maskBits(subnet.netmask, i))

isHostAddressInSubnet_Inverted(senderAddr) == \A mask \in AcSubnetWhitelist : ~isInSubnet(senderAddr, mask)

\* find_if over _acSubnetWhitelist in processRequestAssignmentPacket
isHostAddressInSubnet(senderAddr) == \E mask \in AcSubnetWhitelist : isInSubnet(senderAddr, mask)

\* the static assignments parsed from the settings at startup
StaticConfig == << [type |-> "AudioMixerType", pool |-> ""],
                  [type |-> "AvatarMixerType", pool |-> ""] >>

\* settings whose config list of the audio-mixer type holds two entries:
\* createStaticAssignmentsForType makes one static assignment per entry
TwoAudioMixersConfig == << [type |-> "AudioMixerType", pool |-> ""],
                          [type |-> "AudioMixerType", pool |-> ""] >>

-----------------------------------------------------------------------------
(* Pure helpers *)

Min(S) == CHOOSE x \in S : \A y \in S : x <= y

Remove(f, k) == [x \in DOMAIN f \ {k} |-> f[x]]

Put(f, k, v) == (k :> v) @@ f

RemoveAt(q, i) == [j \in 1..(Len(q) - 1) |-> IF j < i THEN q[j] ELSE q[j + 1]]

\* Assignment::typeForNodeType
typeForNodeType(nodeType) ==
    CASE nodeType = "AudioMixer" -> "AudioMixerType"
      [] nodeType = "AvatarMixer" -> "AvatarMixerType"
      [] nodeType = "Agent" -> "AgentType"
      [] OTHER -> "AllTypes"

\* the numeric order of Assignment::Type
TypeRank(t) ==
    CASE t = "AudioMixerType" -> 0
      [] t = "AvatarMixerType" -> 1
      [] t = "AgentType" -> 2
      [] OTHER -> 7

\* HifiSockAddr::hasPrivateAddress : the RFC 1918 ranges
hasPrivateAddress(a) ==
    \/ a[1] = 10
    \/ a[1] = 172 /\ a[2] \in 16..31
    \/ a[1] = 192 /\ a[2] = 168

Live == DOMAIN nodes

\* no packet has passed the filter since the last handler ran
NoVerdict ==
    [sourced |-> FALSE, localID |-> 0, sender |-> <<0, 0, 0, 0>>, verdict |-> "none",
     denials |-> <<>>]

-----------------------------------------------------------------------------
(* Session secrets *)

SecretOf(ns, a, b) ==
    IF b \in DOMAIN ns[a].sessionSecretHash THEN ns[a].sessionSecretHash[b] ELSE NullUuid

\* the secrets some live node's hash holds
SecretsInUse(ns) ==
    UNION {{ns[m].sessionSecretHash[k] : k \in DOMAIN ns[m].sessionSecretHash} : m \in DOMAIN ns}

\* QUuid::createUuid() for a session secret: a value no hash holds
FreshSecret(ns) ==
    CHOOSE k \in 1..(Cardinality(SecretsInUse(ns)) + 1) :
        /\ k \notin SecretsInUse(ns)
        /\ \A j \in 1..(k - 1) : j \in SecretsInUse(ns)

\* connectionSecretForNodes without the test for an existing secret
connectionSecretForNodes_AlwaysNew(ns, a, b) ==
    LET created == FreshSecret(ns)
    IN [nodes |-> [ns EXCEPT ![a].sessionSecretHash = Put(@, b, created),
                             ![b].sessionSecretHash = Put(@, a, created)],
        secret |-> created]

\* DomainServer::connectionSecretForNodes on the registry ns; the result
\* carries the secret returned
connectionSecretForNodes(ns, a, b) ==
    LET secretUUID == SecretOf(ns, a, b) IN
    IF secretUUID # NullUuid
    THEN [nodes |-> ns, secret |-> secretUUID]
    ELSE LET created == FreshSecret(ns)
         IN [nodes |-> [ns EXCEPT ![a].sessionSecretHash = Put(@, b, created),
                                  ![b].sessionSecretHash = Put(@, a, created)],
             secret |-> created]

\* the eachNode loops of sendDomainListToNode (selfFirst) and broadcastNewNode:
\* one connectionSecretForNodes call per peer, collecting what is packed
RECURSIVE SecretsForEach(_, _, _, _)
SecretsForEach(st, self, peers, selfFirst) ==
    IF peers = {} THEN st
    ELSE LET m == Min(peers)
             r == IF selfFirst THEN connectionSecretForNodes(st.nodes, self, m)
                               ELSE connectionSecretForNodes(st.nodes, m, self)
         IN SecretsForEach([nodes |-> r.nodes,
                            out |-> st.out \cup {[peer |-> m, secret |-> r.secret]}],
                           self, peers \ {m}, selfFirst)

\* DomainServer::isInInterestSet
isInInterestSet(nodeA, nodeB) == nodeB.type \in nodeA.interestSet

\* sendDomainListToNode without the isAuthenticated test
sendDomainListToNode_IgnoresAuthentication(ns, n) ==
    LET peers == IF ns[n].interestSet # {}
                 THEN {m \in DOMAIN ns : m # n /\ isInInterestSet(ns[n], ns[m])}
                 ELSE {}
        r == SecretsForEach([nodes |-> ns, out |-> {}], n, peers, TRUE)
    IN [nodes |-> r.nodes,
        packets |-> {[kind |-> "DomainList", to |-> n, about |-> NullUuid, list |-> r.out]}]

\* DomainServer::sendDomainListToNode on the registry ns: the new registry and
\* the DomainList packet written to the node
sendDomainListToNode(ns, n) ==
    LET peers == IF ns[n].interestSet # {} /\ ns[n].isAuthenticated
                 THEN {m \in DOMAIN ns : m # n /\ isInInterestSet(ns[n], ns[m])}
                 ELSE {}
        r == SecretsForEach([nodes |-> ns, out |-> {}], n, peers, TRUE)
    IN [nodes |-> r.nodes,
        packets |-> {[kind |-> "DomainList", to |-> n, about |-> NullUuid, list |-> r.out]}]

\* broadcastNewNode without the isInInterestSet test
broadcastNewNode_IgnoresInterest(ns, added) ==
    LET targets == {m \in DOMAIN ns : m # added}
        r == SecretsForEach([nodes |-> ns, out |-> {}], added, targets, FALSE)
    IN [nodes |-> r.nodes,
        packets |-> {[kind |-> "DomainServerAddedNode", to |-> e.peer, about |-> added,
                      list |-> {[peer |-> added, secret |-> e.secret]}] : e \in r.out}]

\* DomainServer::broadcastNewNode
broadcastNewNode(ns, added) ==
    LET targets == {m \in DOMAIN ns : m # added /\ isInInterestSet(ns[m], ns[added])}
        r == SecretsForEach([nodes |-> ns, out |-> {}], added, targets, FALSE)
    IN [nodes |-> r.nodes,
        packets |-> {[kind |-> "DomainServerAddedNode", to |-> e.peer, about |-> added,
                      list |-> {[peer |-> added, secret |-> e.secret]}] : e \in r.out}]

\* DomainServer::handleConnectedNode
handleConnectedNode(ns, newNode) ==
    LET l == sendDomainListToNode(ns, newNode)
        b == broadcastNewNode(l.nodes, newNode)
    IN [nodes |-> b.nodes, packets |-> l.packets \cup b.packets]

-----------------------------------------------------------------------------
(* Assignments *)

\* refreshStaticAssignmentAndAddToQueue without the resetUUID call
refreshStaticAssignmentAndAddToQueue_KeepsUuid(st, obj) ==
    [assignments |-> st.assignments,
     all |-> Put(st.all, st.assignments[obj].uuid, obj),
     queue |-> Append(st.queue, obj),
     used |-> st.used]

\* DomainServer::refreshStaticAssignmentAndAddToQueue on
\* st = [assignments, all, queue, used], used being the UUIDs in use
refreshStaticAssignmentAndAddToQueue(st, obj) ==
    LET newUUID == FreshUuid(st.used)
    IN [assignments |-> [st.assignments EXCEPT ![obj].uuid = newUUID],
        all |-> Put(st.all, newUUID, obj),
        queue |-> Append(st.queue, obj),
        used |-> st.used \cup {newUUID}]

\* the comparator of addStaticAssignmentsToQueue where the two types differ
SortsBefore(a, b) ==
    IF a.type # "AgentType" /\ b.type # "AgentType"
    THEN TypeRank(a.type) < TypeRank(b.type)
    ELSE a.type # "AgentType"

\* the heap after parseAssignmentConfigs and the populate calls under the
\* settings config
ParsedAssignmentsOf(config) ==
    [i \in 1..Len(config) |->
        [uuid |-> GeneratedUuid(i), type |-> config[i].type,
         pool |-> config[i].pool, isStatic |-> TRUE]]

\* the heap and the hash after parseAssignmentConfigs and the populate calls
ParsedAssignments == ParsedAssignmentsOf(StaticConfig)

\* _allAssignments after addStaticAssignmentToAssignmentHash has run for each
ParsedHashOf(config) == [u \in {GeneratedUuid(i) : i \in 1..Len(config)} |-> u - MaxAgents]

ParsedHash == ParsedHashOf(StaticConfig)

\* the orders qSort may leave the values of the hash in, parsed being the heap
SortedOrdersOf(parsed) ==
    {p \in [1..Len(parsed) -> 1..Len(parsed)] :
        /\ \A i, j \in 1..Len(parsed) : i # j => p[i] # p[j]
        /\ \A i, j \in 1..Len(parsed) :
              (i < j /\ parsed[p[i]].type # parsed[p[j]].type)
                  => SortsBefore(parsed[p[i]], parsed[p[j]])}

\* the orders qSort may leave the hash values in
SortedOrders == SortedOrdersOf(ParsedAssignments)

\* DomainServer::addStaticAssignmentsToQueue, no node being connected at startup
RECURSIVE addStaticAssignmentsToQueue(_, _, _)
addStaticAssignmentsToQueue(st, order, i) ==
    IF i > Len(order) THEN st
    ELSE addStaticAssignmentsToQueue(refreshStaticAssignmentAndAddToQueue(st, order[i]),
                                     order, i + 1)

\* the match test of deployableAssignmentForRequest
MatchesRequest(a, reqType, reqPool) ==
    LET requestIsAllTypes == reqType = "AllTypes"
        assignmentTypesMatch == a.type = reqType
        neitherHasPool == a.pool = "" /\ reqPool = ""
        assignmentPoolsMatch == a.pool = reqPool
    IN (requestIsAllTypes \/ assignmentTypesMatch) /\ (neitherHasPool \/ assignmentPoolsMatch)

\* deployableAssignmentForRequest leaving the match where it is in the queue
deployableAssignmentForRequest_NoRotation(reqType, reqPool) ==
    LET hits == {i \in 1..Len(unfulfilledAssignments) :
                    MatchesRequest(assignments[unfulfilledAssignments[i]], reqType, reqPool)}
    IN IF hits = {} THEN [obj |-> 0, queue |-> unfulfilledAssignments]
       ELSE [obj |-> unfulfilledAssignments[Min(hits)], queue |-> unfulfilledAssignments]

\* deployableAssignmentForRequest with the pools left out of the comparison
deployableAssignmentForRequest_AnyPool(reqType, reqPool) ==
    LET hits == {i \in 1..Len(unfulfilledAssignments) :
                    MatchesRequest(assignments[unfulfilledAssignments[i]], reqType, "")
                    \/ MatchesRequest(assignments[unfulfilledAssignments[i]], reqType,
                                      assignments[unfulfilledAssignments[i]].pool)}
    IN IF hits = {} THEN [obj |-> 0, queue |-> unfulfilledAssignments]
       ELSE [obj |-> unfulfilledAssignments[Min(hits)],
             queue |-> Append(RemoveAt(unfulfilledAssignments, Min(hits)),
                              unfulfilledAssignments[Min(hits)])]

\* DomainServer::deployableAssignmentForRequest: the object handed out (0: none)
\* and the queue it leaves
deployableAssignmentForRequest(reqType, reqPool) ==
    LET hits == {i \in 1..Len(unfulfilledAssignments) :
                    MatchesRequest(assignments[unfulfilledAssignments[i]], reqType, reqPool)}
    IN IF hits = {} THEN [obj |-> 0, queue |-> unfulfilledAssignments]
       ELSE [obj |-> unfulfilledAssignments[Min(hits)],
             queue |-> Append(RemoveAt(unfulfilledAssignments, Min(hits)),
                              unfulfilledAssignments[Min(hits)])]

\* dequeueMatchingAssignment returning the match without takeAt
dequeueMatchingAssignment_KeepsQueued(assignmentUUID, nodeType) ==
    LET hits == {i \in 1..Len(unfulfilledAssignments) :
                    /\ assignments[unfulfilledAssignments[i]].type = typeForNodeType(nodeType)
                    /\ assignments[unfulfilledAssignments[i]].uuid = assignmentUUID}
    IN IF hits = {} THEN [obj |-> 0, queue |-> unfulfilledAssignments]
       ELSE [obj |-> unfulfilledAssignments[Min(hits)], queue |-> unfulfilledAssignments]

\* DomainServer::dequeueMatchingAssignment: the object taken (0: none) and the
\* queue it leaves
dequeueMatchingAssignment(assignmentUUID, nodeType) ==
    LET hits == {i \in 1..Len(unfulfilledAssignments) :
                    /\ assignments[unfulfilledAssignments[i]].type = typeForNodeType(nodeType)
                    /\ assignments[unfulfilledAssignments[i]].uuid = assignmentUUID}
    IN IF hits = {} THEN [obj |-> 0, queue |-> unfulfilledAssignments]
       ELSE [obj |-> unfulfilledAssignments[Min(hits)],
             queue |-> RemoveAt(unfulfilledAssignments, Min(hits))]

\* every assignment UUID generated so far
UsedUuids == {GeneratedUuid(k) : k \in 1..uuidCounter}

\* the UUIDs the configuration parsing and the startup refresh generate, each
\* configuration of the model holding as many static assignments as StaticConfig
StartupUuids == 2 * Len(StaticConfig)

-----------------------------------------------------------------------------
(* Node death *)

\* nodeKilled putting every assignment back in the queue, static or not
nodeKilledAssignments_RequeuesAll(nodeData) ==
    LET st == [assignments |-> assignments, all |-> allAssignments,
               queue |-> unfulfilledAssignments, used |-> UsedUuids]
    IN IF nodeData.assignmentUUID # NullUuid /\ nodeData.assignmentUUID \in DOMAIN allAssignments
       THEN refreshStaticAssignmentAndAddToQueue(
                [st EXCEPT !.all = Remove(allAssignments, nodeData.assignmentUUID)],
                allAssignments[nodeData.assignmentUUID])
       ELSE st

\* DomainServer::nodeKilled, the assignment half: the hash entry of the dead
\* node's assignment is taken, and a static assignment goes back to the queue
nodeKilledAssignments(nodeData) ==
    LET st == [assignments |-> assignments, all |-> allAssignments,
               queue |-> unfulfilledAssignments, used |-> UsedUuids]
    IN IF nodeData.assignmentUUID # NullUuid /\ nodeData.assignmentUUID \in DOMAIN allAssignments
       THEN LET matchedAssignment == allAssignments[nodeData.assignmentUUID]
                taken == [st EXCEPT !.all = Remove(allAssignments, nodeData.assignmentUUID)]
            IN IF assignments[matchedAssignment].isStatic
               THEN refreshStaticAssignmentAndAddToQueue(taken, matchedAssignment)
               ELSE taken
       ELSE st

\* nodeKilled with the cleanup loop inside the branch for agents
nodeKilledSecrets_AgentsOnly(others, uuid, nodeData) ==
    [m \in DOMAIN others |->
        IF nodeData.type = "Agent" /\ m \in DOMAIN nodeData.sessionSecretHash
        THEN [others[m] EXCEPT !.sessionSecretHash = Remove(@, uuid)]
        ELSE others[m]]

\* nodeKilled without the cleanup loop over the other nodes
nodeKilledSecrets_NoCleanup(others, uuid, nodeData) == others

\* DomainServer::nodeKilled, the secrets half: the dead node's entry is removed
\* from the hash of every live node its own hash names
nodeKilledSecrets(others, uuid, nodeData) ==
    [m \in DOMAIN others |->
        IF m \in DOMAIN nodeData.sessionSecretHash
        THEN [others[m] EXCEPT !.sessionSecretHash = Remove(@, uuid)]
        ELSE others[m]]

\* handleKillNode broadcasting before killNodeWithUUID has run
removedNodePackets_BeforeKill(others, uuid, nodeData) ==
    {[kind |-> "DomainServerRemovedNode", to |-> m, about |-> uuid, list |-> {}] :
        m \in {x \in DOMAIN others : isInInterestSet(others[x], nodeData)}
                 \cup (IF isInInterestSet(nodeData, nodeData) THEN {uuid} ELSE {})}

\* DomainServer::handleKillNode, the broadcast after the kill
removedNodePackets(others, uuid, nodeData) ==
    {[kind |-> "DomainServerRemovedNode", to |-> m, about |-> uuid, list |-> {}] :
        m \in {x \in DOMAIN others : isInInterestSet(others[x], nodeData)}}

\* LimitedNodeList::killNodeWithUUID followed by the nodeKilled slot
KillEffects(uuid, broadcast) ==
    LET nodeData == nodes[uuid]
        others == Remove(nodes, uuid)
        a == nodeKilledAssignments(nodeData)
    IN /\ Cardinality(a.used) <= StartupUuids + MaxUuids
       /\ uuidCounter' = Cardinality(a.used)
       /\ nodes' = nodeKilledSecrets(others, uuid, nodeData)
       /\ assignments' = a.assignments
       /\ allAssignments' = a.all
       /\ unfulfilledAssignments' = a.queue
       /\ packetVerdict' = NoVerdict
       /\ sent' = IF broadcast THEN removedNodePackets(others, uuid, nodeData) ELSE {}
       /\ disallowed' = NullAddress
       /\ UNCHANGED <<pendingAssignedNodes, crashed>>

-----------------------------------------------------------------------------
(* The registry's handlers *)

\* DomainGatekeeper::findOrCreateLocalID: one local ID per UUID, kept for the
\* life of the process
findOrCreateLocalID(uuid) == 100 + uuid

\* LimitedNodeList::addOrUpdateNode and DomainServer::nodeAdded; a new
\* DomainServerNodeData is authenticated
NewNode(uuid, type, interest, addr, assignmentUUID) ==
    [type |-> type, interestSet |-> interest, sendingSockAddr |-> addr,
     assignmentUUID |-> assignmentUUID, localID |-> findOrCreateLocalID(uuid),
     sessionSecretHash |-> <<>>, isAuthenticated |-> TRUE]

\* DomainGatekeeper::processConnectRequestPacket for an interface client,
\* then the connectedNode signal: DomainServer::handleConnectedNode
ProcessAgentConnectRequest(uuid, interest, addr) ==
    /\ ~crashed
    /\ uuid \notin Live
    /\ LET r == handleConnectedNode(
                    Put(nodes, uuid, NewNode(uuid, "Agent", interest, addr, NullUuid)), uuid)
       IN /\ nodes' = r.nodes
          /\ sent' = r.packets
          /\ disallowed' = NullAddress
    /\ packetVerdict' = NoVerdict
    /\ UNCHANGED <<uuidCounter, assignments, allAssignments, unfulfilledAssignments,
                   pendingAssignedNodes, crashed>>

\* the CreateAssignment datagram that carries the clone to the requesting
\* worker, which is no node yet
createAssignmentPacket(cloneUUID) ==
    [kind |-> "CreateAssignment", to |-> NullUuid, about |-> cloneUUID, list |-> {}]

\* DomainServer::processRequestAssignmentPacket: a request from an address
\* outside the allow-list is ignored
ProcessRequestAssignmentPacket(senderAddr, reqType, reqPool) ==
    /\ ~crashed
    /\ LET d == deployableAssignmentForRequest(reqType, reqPool)
       IN IF ~isHostAddressInSubnet(senderAddr)
          THEN /\ sent' = {}
               /\ disallowed' = senderAddr
               /\ UNCHANGED <<uuidCounter, unfulfilledAssignments, pendingAssignedNodes>>
          ELSE /\ disallowed' = NullAddress
               /\ IF d.obj # 0
                  THEN /\ uuidCounter < StartupUuids + MaxUuids
                       /\ uuidCounter' = uuidCounter + 1
                       /\ unfulfilledAssignments' = d.queue
                       /\ sent' = {createAssignmentPacket(FreshUuid(UsedUuids))}
                       /\ pendingAssignedNodes' =
                              Put(pendingAssignedNodes, FreshUuid(UsedUuids),
                                  assignments[d.obj].uuid)
                  ELSE /\ sent' = {}
                       /\ UNCHANGED <<uuidCounter, unfulfilledAssignments,
                                      pendingAssignedNodes>>
    /\ packetVerdict' = NoVerdict
    /\ UNCHANGED <<nodes, assignments, allAssignments, crashed>>

\* DomainGatekeeper::processConnectRequestPacket for a worker that presents the
\* UUID of a clone: the pending record names the assignment, which is dequeued
\* and bound to the new node
ProcessAssignmentConnectRequest(cloneUUID, nodeType, interest) ==
    /\ ~crashed
    /\ cloneUUID \in DOMAIN pendingAssignedNodes
    /\ cloneUUID \notin Live
    /\ LET d == dequeueMatchingAssignment(pendingAssignedNodes[cloneUUID], nodeType)
       IN IF d.obj # 0
          THEN LET r == handleConnectedNode(
                            Put(nodes, cloneUUID,
                                NewNode(cloneUUID, nodeType, interest, WorkerAddress,
                                        assignments[d.obj].uuid)), cloneUUID)
               IN /\ nodes' = r.nodes
                  /\ sent' = r.packets
                  /\ disallowed' = NullAddress
                  /\ unfulfilledAssignments' = d.queue
                  /\ pendingAssignedNodes' = Remove(pendingAssignedNodes, cloneUUID)
          ELSE /\ sent' = {}
               /\ disallowed' = NullAddress
               /\ UNCHANGED <<nodes, unfulfilledAssignments, pendingAssignedNodes>>
    /\ packetVerdict' = NoVerdict
    /\ UNCHANGED <<uuidCounter, assignments, allAssignments, crashed>>

\* processListRequestPacket without the guard against agents asking to hear
\* about other agents
ProcessListRequestPacket_KeepsAgent(uuid, interest) ==
    /\ ~crashed
    /\ uuid \in Live
    /\ LET r == sendDomainListToNode([nodes EXCEPT ![uuid].interestSet = interest], uuid)
       IN /\ nodes' = r.nodes
          /\ sent' = r.packets
          /\ disallowed' = NullAddress
    /\ packetVerdict' = NoVerdict
    /\ UNCHANGED <<uuidCounter, assignments, allAssignments, unfulfilledAssignments,
                   pendingAssignedNodes, crashed>>

\* DomainServer::processListRequestPacket
ProcessListRequestPacket(uuid, interest) ==
    /\ ~crashed
    /\ uuid \in Live
    /\ LET safeInterestSet == IF nodes[uuid].type = "Agent" THEN interest \ {"Agent"}
                              ELSE interest
           r == sendDomainListToNode(
                    [nodes EXCEPT ![uuid].interestSet = safeInterestSet], uuid)
       IN /\ nodes' = r.nodes
          /\ sent' = r.packets
          /\ disallowed' = NullAddress
    /\ packetVerdict' = NoVerdict
    /\ UNCHANGED <<uuidCounter, assignments, allAssignments, unfulfilledAssignments,
                   pendingAssignedNodes, crashed>>

\* DomainServerNodeData::setIsAuthenticated on the linked data of a live node
SetIsAuthenticated(uuid, isAuthenticated) ==
    /\ ~crashed
    /\ uuid \in Live
    /\ nodes[uuid].isAuthenticated # isAuthenticated
    /\ nodes' = [nodes EXCEPT ![uuid].isAuthenticated = isAuthenticated]
    /\ sent' = {}
    /\ disallowed' = NullAddress
    /\ packetVerdict' = NoVerdict
    /\ UNCHANGED <<uuidCounter, assignments, allAssignments, unfulfilledAssignments,
                   pendingAssignedNodes, crashed>>

\* DomainServer::processNodeDisconnectRequestPacket
ProcessNodeDisconnectRequestPacket(localID) ==
    /\ ~crashed
    /\ \E uuid \in Live : nodes[uuid].localID = localID /\ KillEffects(uuid, TRUE)

\* a kill that does not pass through handleKillNode: the silence reaper or
\* DELETE /nodes/{uuid}/ calling LimitedNodeList::killNodeWithUUID
KillNodeWithUUID(uuid) ==
    /\ ~crashed
    /\ uuid \in Live
    /\ KillEffects(uuid, FALSE)

-----------------------------------------------------------------------------
(* The packet filter *)

\* LimitedNodeList::nodeWithLocalID: the live nodes under a local ID
nodeWithLocalID(localID) == {u \in Live : nodes[u].localID = localID}

\* DomainServer::isPacketVerified: the outcomes the call can have. withSourceOK
\* and nodeListOK are what LimitedNodeList::isPacketVerifiedWithSource and
\* LimitedNodeList::isPacketVerified answer. With no node under the local ID the
\* debug line reads the UUID through the null sourceNode.
isPacketVerified(sourced, localSourceID, senderSockAddr, withSourceOK, nodeListOK) ==
    IF sourced
    THEN LET sourceNode == nodeWithLocalID(localSourceID) IN
         IF sourceNode # {}
         THEN LET nodeData == nodes[CHOOSE u \in sourceNode : TRUE]
                  exactAddressMatch == nodeData.sendingSockAddr = senderSockAddr
                  bothPrivateAddresses == /\ hasPrivateAddress(nodeData.sendingSockAddr)
                                          /\ hasPrivateAddress(senderSockAddr)
              IN IF exactAddressMatch \/ bothPrivateAddresses
                 THEN {IF withSourceOK THEN "accepted" ELSE "dropped"}
                 ELSE {"dropped"}
         ELSE {"dropped", "crashed"}
    ELSE {IF nodeListOK THEN "accepted" ELSE "dropped"}

\* a datagram reaches the packet receiver's filter
ReceivePacket(sourced, localSourceID, senderSockAddr, withSourceOK, nodeListOK) ==
    /\ ~crashed
    /\ \E outcome \in isPacketVerified(sourced, localSourceID, senderSockAddr,
                                       withSourceOK, nodeListOK) :
          /\ packetVerdict' = [sourced |-> sourced, localID |-> localSourceID,
                               sender |-> senderSockAddr, verdict |-> outcome,
                               denials |-> <<>>]
          /\ crashed' = (outcome = "crashed")
    /\ sent' = {}
    /\ disallowed' = NullAddress
    /\ UNCHANGED <<nodes, uuidCounter, assignments, allAssignments, unfulfilledAssignments,
                   pendingAssignedNodes>>

\* the start of isPacketVerified with the version test inverted
mismatchDenials_Inverted(headerType, versionMatch, senderSockAddr) ==
    IF headerType = "DomainConnectRequest" /\ versionMatch THEN <<senderSockAddr>> ELSE <<>>

\* the start of DomainServer::isPacketVerified: the addresses
\* DomainGatekeeper::sendProtocolMismatchConnectionDenial is called with
mismatchDenials(headerType, versionMatch, senderSockAddr) ==
    IF headerType = "DomainConnectRequest" /\ ~versionMatch THEN <<senderSockAddr>> ELSE <<>>

\* LimitedNodeList::isPacketVerified for a non-sourced packet: the version in
\* the header is the expected one and the rest of the header verifies
nodeListIsPacketVerified(versionMatch, hashOK) == versionMatch /\ hashOK

\* a DomainConnectRequest datagram of an interface client reaches the filter
\* and, when verified, its handler DomainGatekeeper::processConnectRequestPacket
ReceiveConnectRequest(uuid, interest, senderSockAddr, versionMatch, hashOK) ==
    /\ ~crashed
    /\ LET denials == mismatchDenials("DomainConnectRequest", versionMatch, senderSockAddr)
       IN IF nodeListIsPacketVerified(versionMatch, hashOK)
          THEN /\ uuid \notin Live
               /\ LET r == handleConnectedNode(
                               Put(nodes, uuid,
                                   NewNode(uuid, "Agent", interest, senderSockAddr, NullUuid)),
                               uuid)
                  IN /\ nodes' = r.nodes
                     /\ sent' = r.packets
               /\ packetVerdict' = [sourced |-> FALSE, localID |-> 0, sender |-> senderSockAddr,
                                    verdict |-> "accepted", denials |-> denials]
          ELSE /\ packetVerdict' = [sourced |-> FALSE, localID |-> 0, sender |-> senderSockAddr,
                                    verdict |-> "dropped", denials |-> denials]
               /\ sent' = {}
               /\ UNCHANGED nodes
    /\ disallowed' = NullAddress
    /\ UNCHANGED <<uuidCounter, assignments, allAssignments, unfulfilledAssignments,
                   pendingAssignedNodes, crashed>>

-----------------------------------------------------------------------------
(* ICE heartbeat and the metaverse ice-server address update *)

\* a null HifiSockAddr
NullSocket == <<>>

\* the "0.0.0.0" the address update carries while no ice-server is connected
ZeroAddress == <<0, 0, 0, 0>>

FAILOVER_NO_REPLY_ICE_HEARTBEATS == 3

NUM_HEARTBEAT_DENIALS_FOR_KEYPAIR_REGEN == 3

\* the addresses the ice-server host name can resolve to
IceHosts == [i \in 1..MaxIceAddresses |-> <<52, 0, 0, i>>]

\* the answers of a host lookup: a failure (no address) or a list of addresses
HostInfos == {SubSeq(IceHosts, i, j) : i \in 1..MaxIceAddresses, j \in 0..MaxIceAddresses}

Range(q) == {q[i] : i \in DOMAIN q}

\* the ice_server_address a request built now would carry
IceAddressPayload(st) ==
    IF ~st.connectedToICEServer \/ st.iceServerSocket = NullSocket
    THEN ZeroAddress
    ELSE st.iceServerSocket

\* DomainServer::updateICEServerAddresses: a lookup runs unless one is running
updateICEServerAddresses(st) == [st EXCEPT !.iceAddressLookupID = TRUE]

\* sendICEServerAddressToMetaverseAPI without the in-progress test
sendICEServerAddressToMetaverseAPI_NoGuard(st) ==
    [st EXCEPT !.inProgress = TRUE,
               !.apiRequests = Append(@, IceAddressPayload(st)),
               !.askedWhileInFlight = @ \/ st.apiRequests # <<>>]

\* DomainServer::sendICEServerAddressToMetaverseAPI. askedWhileInFlight notes
\* a call made while a request is on the wire.
sendICEServerAddressToMetaverseAPI(st) ==
    IF st.inProgress
    THEN [st EXCEPT !.redo = TRUE,
                    !.askedWhileInFlight = @ \/ st.apiRequests # <<>>]
    ELSE [st EXCEPT !.inProgress = TRUE,
                    !.apiRequests = Append(@, IceAddressPayload(st)),
                    !.askedWhileInFlight = @ \/ st.apiRequests # <<>>]

\* handleSuccessfulICEServerAddressUpdate that forgets the redo flag
handleSuccessfulICEServerAddressUpdate_IgnoresRedo(st) ==
    [st EXCEPT !.inProgress = FALSE]

\* DomainServer::handleSuccessfulICEServerAddressUpdate
handleSuccessfulICEServerAddressUpdate(st) ==
    LET done == [st EXCEPT !.inProgress = FALSE]
    IN IF done.redo
       THEN sendICEServerAddressToMetaverseAPI([done EXCEPT !.redo = FALSE])
       ELSE done

\* DomainServer::handleFailedICEServerAddressUpdate
handleFailedICEServerAddressUpdate(st) ==
    LET done == [st EXCEPT !.inProgress = FALSE]
    IN IF done.redo
       THEN sendICEServerAddressToMetaverseAPI([done EXCEPT !.redo = FALSE])
       ELSE [done EXCEPT !.retryTimers = @ + 1]

RECURSIVE sendHeartbeatToIceServer(_, _)
RECURSIVE randomizeICEServerAddress(_, _, _)

\* the candidate list of randomizeICEServerAddress: the resolved addresses
\* that have not failed
NotFailedAddresses(st) ==
    SelectSeq(st.iceServerAddresses, LAMBDA a : a \notin st.failedIceServerAddresses)

\* randomizeICEServerAddress that keeps the failed set when every address failed
randomizeICEServerAddress_KeepsFailed(st, shouldTriggerHostLookup, draw) ==
    LET looked == IF shouldTriggerHostLookup THEN updateICEServerAddresses(st) ELSE st
        exhausted == NotFailedAddresses(looked) = <<>>
        candidateICEAddresses == IF exhausted THEN looked.iceServerAddresses
                                 ELSE NotFailedAddresses(looked)
        maxIndex == Len(candidateICEAddresses) - 1
        indexToTry == IF maxIndex > 0 THEN draw % (maxIndex + 1) ELSE 0
        picked == [looked EXCEPT !.iceServerSocket = candidateICEAddresses[indexToTry + 1],
                                 !.numHeartbeatDenials = 0]
    IN sendICEServerAddressToMetaverseAPI(sendHeartbeatToIceServer(picked, draw))

\* randomizeICEServerAddress drawing from every resolved address
randomizeICEServerAddress_IgnoresFailed(st, shouldTriggerHostLookup, draw) ==
    LET looked == IF shouldTriggerHostLookup THEN updateICEServerAddresses(st) ELSE st
        candidateICEAddresses == looked.iceServerAddresses
        maxIndex == Len(candidateICEAddresses) - 1
        indexToTry == IF maxIndex > 0 THEN draw % (maxIndex + 1) ELSE 0
        picked == [looked EXCEPT !.iceServerSocket = candidateICEAddresses[indexToTry + 1],
                                 !.numHeartbeatDenials = 0]
    IN sendICEServerAddressToMetaverseAPI(sendHeartbeatToIceServer(picked, draw))

\* DomainServer::randomizeICEServerAddress, draw being the random number
randomizeICEServerAddress(st, shouldTriggerHostLookup, draw) ==
    LET looked == IF shouldTriggerHostLookup THEN updateICEServerAddresses(st) ELSE st
        exhausted == NotFailedAddresses(looked) = <<>>
        candidateICEAddresses == IF exhausted THEN looked.iceServerAddresses
                                 ELSE NotFailedAddresses(looked)
        maxIndex == Len(candidateICEAddresses) - 1
        indexToTry == IF maxIndex > 0 THEN draw % (maxIndex + 1) ELSE 0
        picked == [looked EXCEPT !.failedIceServerAddresses = IF exhausted THEN {} ELSE @,
                                 !.iceServerSocket = candidateICEAddresses[indexToTry + 1],
                                 !.numHeartbeatDenials = 0]
    IN sendICEServerAddressToMetaverseAPI(sendHeartbeatToIceServer(picked, draw))

\* sendHeartbeatToIceServer whose failover leaves the connection flag alone
sendHeartbeatToIceServer_KeepsConnected(st, draw) ==
    IF st.iceServerSocket = NullSocket THEN st
    ELSE IF ~st.hasPrivateKey THEN [st EXCEPT !.keypairPending = TRUE]
    ELSE LET counted == [st EXCEPT !.noReplyICEHeartbeats = @ + 1]
             ready ==
                 IF counted.noReplyICEHeartbeats > FAILOVER_NO_REPLY_ICE_HEARTBEATS
                 THEN randomizeICEServerAddress(
                          sendICEServerAddressToMetaverseAPI(
                              [counted EXCEPT !.failedIceServerAddresses =
                                                  @ \cup {counted.iceServerSocket},
                                              !.iceServerSocket = NullSocket,
                                              !.noReplyICEHeartbeats = 0]),
                          TRUE, draw)
                 ELSE counted
         IN [ready EXCEPT !.heartbeatPacket = TRUE,
                          !.heartbeatsSent = Append(@, ready.iceServerSocket)]

\* DomainServer::sendHeartbeatToIceServer
sendHeartbeatToIceServer(st, draw) ==
    IF st.iceServerSocket = NullSocket THEN st
    ELSE IF ~st.hasPrivateKey THEN [st EXCEPT !.keypairPending = TRUE]
    ELSE LET counted == [st EXCEPT !.noReplyICEHeartbeats = @ + 1]
             ready ==
                 IF counted.noReplyICEHeartbeats > FAILOVER_NO_REPLY_ICE_HEARTBEATS
                 THEN randomizeICEServerAddress(
                          sendICEServerAddressToMetaverseAPI(
                              [counted EXCEPT !.failedIceServerAddresses =
                                                  @ \cup {counted.iceServerSocket},
                                              !.iceServerSocket = NullSocket,
                                              !.noReplyICEHeartbeats = 0,
                                              !.connectedToICEServer = FALSE]),
                          TRUE, draw)
                 ELSE counted
         IN [ready EXCEPT !.heartbeatPacket = TRUE,
                          !.heartbeatsSent = Append(@, ready.iceServerSocket)]

\* a handler starts: nothing sent yet
Begin(handler) ==
    [ice EXCEPT !.handler = handler, !.heartbeatsSent = <<>>, !.ackFrom = NullSocket]

\* a signal is emitted: the slot runs once for each connection made by the
\* runs of setupICEHeartbeatForFullNetworking, k being those left to run
RECURSIVE Emit(_, _, _, _)
Emit(st, slot, k, draw) ==
    IF k = 0 THEN st
    ELSE Emit(IF slot = "handleKeypairChange" /\ ~st.heartbeatPacket THEN st
              ELSE sendHeartbeatToIceServer(st, draw),
              slot, k - 1, draw)

\* the heartbeat timer, made once, calls sendHeartbeatToIceServer
IceHeartbeatTimeout(draw) ==
    ice' = sendHeartbeatToIceServer(Begin("heartbeat"), draw)

\* LimitedNodeList::localSockAddrChanged or publicSockAddrChanged is emitted
SockAddrChanged(draw) ==
    ice' = Emit(Begin("sockAddrChanged"), "sendHeartbeatToIceServer",
                ice.signalConnections, draw)

\* DomainServer::processICEServerHeartbeatACK for the ACK of the ice-server at
\* the address from, which the handler does not read; ackFrom notes it
ProcessICEServerHeartbeatACK(from) ==
    /\ ice.iceServerSocket # NullSocket
    /\ LET st == [Begin("ack") EXCEPT !.noReplyICEHeartbeats = 0, !.ackFrom = from]
       IN ice' = IF ~st.connectedToICEServer
                 THEN sendICEServerAddressToMetaverseAPI(
                          [st EXCEPT !.connectedToICEServer = TRUE])
                 ELSE st

\* DomainServer::processICEServerHeartbeatDenialPacket
ProcessICEServerHeartbeatDenialPacket ==
    /\ ice.iceServerSocket # NullSocket
    /\ LET st == [Begin("denial") EXCEPT !.numHeartbeatDenials = @ + 1]
           regen == IF st.numHeartbeatDenials > NUM_HEARTBEAT_DENIALS_FOR_KEYPAIR_REGEN
                    THEN [st EXCEPT !.keypairPending = TRUE, !.numHeartbeatDenials = 0]
                    ELSE st
       IN ice' = [regen EXCEPT !.noReplyICEHeartbeats = 0]

\* AccountManager::newKeypair, then DomainServer::handleKeypairChange
HandleKeypairChange(draw) ==
    /\ ice.keypairPending
    /\ LET st == [Begin("keypair") EXCEPT !.keypairPending = FALSE, !.hasPrivateKey = TRUE]
       IN ice' = Emit(st, "handleKeypairChange", st.signalConnections, draw)

\* handleICEHostInfo that stores the addresses of an empty answer
HandleICEHostInfo_StoresEmpty(sanitizedAddresses, draw) ==
    /\ ice.iceAddressLookupID
    /\ LET st == [Begin("hostInfo") EXCEPT !.iceAddressLookupID = FALSE,
                                          !.iceServerAddresses = sanitizedAddresses]
       IN IF sanitizedAddresses = <<>>
          THEN /\ st.iceServerSocket = NullSocket => st.lookupRetryTimers < MaxRetryTimers
               /\ ice' = IF st.iceServerSocket = NullSocket
                         THEN [st EXCEPT !.lookupRetryTimers = @ + 1]
                         ELSE st
          ELSE ice' = IF st.iceServerSocket = NullSocket
                      THEN randomizeICEServerAddress(st, FALSE, draw)
                      ELSE st

\* DomainServer::handleICEHostInfo with the sanitized addresses of the answer
HandleICEHostInfo(sanitizedAddresses, draw) ==
    /\ ice.iceAddressLookupID
    /\ LET st == [Begin("hostInfo") EXCEPT !.iceAddressLookupID = FALSE]
       IN IF sanitizedAddresses = <<>>
          THEN /\ st.iceServerSocket = NullSocket => st.lookupRetryTimers < MaxRetryTimers
               /\ ice' = IF st.iceServerSocket = NullSocket
                         THEN [st EXCEPT !.lookupRetryTimers = @ + 1]
                         ELSE st
          ELSE LET found == [st EXCEPT !.iceServerAddresses = sanitizedAddresses]
               IN ice' = IF found.iceServerSocket = NullSocket
                         THEN randomizeICEServerAddress(found, FALSE, draw)
                         ELSE found

\* the single-shot timer of handleICEHostInfo calls updateICEServerAddresses
LookupRetryTimeout ==
    /\ ice.lookupRetryTimers > 0
    /\ ice' = updateICEServerAddresses([Begin("lookupRetry") EXCEPT !.lookupRetryTimers = @ - 1])

\* the metaverse API answers the request on the wire: the JSON callback
HandleSuccessfulICEServerAddressUpdate ==
    /\ ice.apiRequests # <<>>
    /\ ice' = handleSuccessfulICEServerAddressUpdate(
                  [Begin("updateSuccess") EXCEPT !.apiRequests = Tail(@),
                                                 !.askedWhileInFlight = FALSE])

\* the request on the wire fails: the error callback
HandleFailedICEServerAddressUpdate ==
    /\ ice.apiRequests # <<>>
    /\ ice.redo \/ ice.retryTimers < MaxRetryTimers
    /\ ice' = handleFailedICEServerAddressUpdate(
                  [Begin("updateFailure") EXCEPT !.apiRequests = Tail(@),
                                                 !.askedWhileInFlight = FALSE])

\* the 2 s single-shot timer of handleFailedICEServerAddressUpdate fires
RetryTimeout ==
    /\ ice.retryTimers > 0
    /\ ice' = sendICEServerAddressToMetaverseAPI(
                  [Begin("updateRetry") EXCEPT !.retryTimers = @ - 1])

-----------------------------------------------------------------------------
(* The metaverse heartbeat *)

\* the requests of one kind the account manager has on the wire at most
MaxRequestsInFlight == 3

\* the attempt limit of handleMetaverseHeartbeatError
MAX_ATTEMPTS == 5

\* the errors a heartbeat reply may carry: AuthenticationRequiredError,
\* ContentNotFoundError and any other
HeartbeatErrors == {"401", "404", "other"}

\* DomainServer::setupHeartbeatToMetaverse
setupHeartbeatToMetaverse(st) == [st EXCEPT !.heartbeatTimer = TRUE]

\* DomainServer::getTemporaryName on a server that has a domain ID: without
\* force the request is abandoned
getTemporaryName(st, force) ==
    IF force THEN [st EXCEPT !.tempNameRequests = @ + 1, !.tempNamesRequested = @ + 1]
    ELSE st

\* handleMetaverseHeartbeatError without the test of the domain type
handleMetaverseHeartbeatError_AnyType(st, error) ==
    IF ~st.heartbeatTimer THEN st
    ELSE IF error \notin {"401", "404"} THEN st
    ELSE LET halted == [st EXCEPT !.heartbeatTimer = FALSE, !.attempt = @ + 1]
         IN IF halted.attempt < MAX_ATTEMPTS THEN getTemporaryName(halted, TRUE) ELSE halted

\* handleMetaverseHeartbeatError without the test of the heartbeat timer
handleMetaverseHeartbeatError_NoTimerTest(st, error) ==
    IF st.type # "MetaverseTemporaryDomain" THEN st
    ELSE IF error \notin {"401", "404"} THEN st
    ELSE LET halted == [st EXCEPT !.heartbeatTimer = FALSE, !.attempt = @ + 1]
         IN IF halted.attempt < MAX_ATTEMPTS THEN getTemporaryName(halted, TRUE) ELSE halted

\* DomainServer::handleMetaverseHeartbeatError
handleMetaverseHeartbeatError(st, error) ==
    IF ~st.heartbeatTimer THEN st
    ELSE IF st.type # "MetaverseTemporaryDomain" THEN st
    ELSE IF error \notin {"401", "404"} THEN st
    ELSE LET halted == [st EXCEPT !.heartbeatTimer = FALSE, !.attempt = @ + 1]
         IN IF halted.attempt < MAX_ATTEMPTS THEN getTemporaryName(halted, TRUE) ELSE halted

\* the heartbeat timer fires: DomainServer::sendHeartbeatToMetaverse
MetaverseHeartbeatTimeout ==
    /\ meta.heartbeatTimer
    /\ meta.heartbeats < MaxRequestsInFlight
    /\ meta' = [meta EXCEPT !.heartbeats = @ + 1]
    /\ UNCHANGED ice

\* DomainServer::performIPAddressUpdate, the slot of publicSockAddrChanged: a
\* heartbeat is sent whether the timer runs or not
PerformIPAddressUpdate ==
    /\ meta.heartbeats < MaxRequestsInFlight
    /\ meta' = [meta EXCEPT !.heartbeats = @ + 1]
    /\ UNCHANGED ice

\* the metaverse accepts a heartbeat: no callback is registered for success
MetaverseHeartbeatAccepted ==
    /\ meta.heartbeats > 0
    /\ meta' = [meta EXCEPT !.heartbeats = @ - 1, !.reply = "accepted",
                            !.haltedAtReply = ~meta.heartbeatTimer]
    /\ UNCHANGED ice

\* a heartbeat fails: the error callback
HandleMetaverseHeartbeatError(error) ==
    /\ meta.heartbeats > 0
    /\ meta' = handleMetaverseHeartbeatError(
                   [meta EXCEPT !.heartbeats = @ - 1, !.reply = error,
                                !.haltedAtReply = ~meta.heartbeatTimer], error)
    /\ UNCHANGED ice

\* DomainServer::handleTempDomainError: a warning
HandleTempDomainError ==
    /\ meta.tempNameRequests > 0
    /\ meta' = [meta EXCEPT !.tempNameRequests = @ - 1]
    /\ UNCHANGED ice

\* the members after the constructor of a server whose settings hold a domain
\* ID: the timer runs and the first heartbeat is on the wire; haltedAtReply
\* tells whether the timer was halted when the last answer came; reply is the
\* answer to the heartbeat answered last
InitMetaverseOf(type) ==
    meta = [type |-> type, heartbeatTimer |-> TRUE, attempt |-> 0, heartbeats |-> 1,
            tempNameRequests |-> 0, tempNamesRequested |-> 0, reply |-> "none",
            haltedAtReply |-> FALSE]

\* DomainServer::handleTempDomainSuccess: the heartbeats are set up under the
\* new domain ID and the address update is sent
HandleTempDomainSuccess ==
    LET st == [updateICEServerAddresses(Begin("tempDomain"))
                  EXCEPT !.signalConnections = @ + 1]
        keyed == IF ~st.hasPrivateKey THEN [st EXCEPT !.keypairPending = TRUE] ELSE st
    IN /\ ice' = sendICEServerAddressToMetaverseAPI(keyed)
       /\ meta' = setupHeartbeatToMetaverse(
                      [meta EXCEPT !.type = "MetaverseTemporaryDomain",
                                   !.tempNameRequests = IF @ > 0 THEN @ - 1 ELSE 0])

\* the members after setupICEHeartbeatForFullNetworking in the constructor of a
\* server that has no keypair yet
InitICE ==
    LET hasPrivateKey == FALSE IN
        ice = [iceServerAddresses |-> <<>>, failedIceServerAddresses |-> {},
               iceServerSocket |-> NullSocket, noReplyICEHeartbeats |-> 0,
               numHeartbeatDenials |-> 0, connectedToICEServer |-> FALSE,
               iceAddressLookupID |-> TRUE, lookupRetryTimers |-> 0,
               hasPrivateKey |-> hasPrivateKey, keypairPending |-> ~hasPrivateKey,
               heartbeatPacket |-> FALSE, inProgress |-> FALSE, redo |-> FALSE,
               apiRequests |-> <<>>, retryTimers |-> 0, askedWhileInFlight |-> FALSE,
               heartbeatsSent |-> <<>>, handler |-> "none", ackFrom |-> NullSocket,
               signalConnections |-> 1]

NextICE ==
    \/ \E draw \in 0..(MaxIceAddresses - 1) : IceHeartbeatTimeout(draw) /\ UNCHANGED meta
    \/ \E draw \in 0..(MaxIceAddresses - 1) : SockAddrChanged(draw) /\ UNCHANGED meta
    \/ \E from \in {ice.iceServerSocket} \cup ice.failedIceServerAddresses :
          ProcessICEServerHeartbeatACK(from) /\ UNCHANGED meta
    \/ ProcessICEServerHeartbeatDenialPacket /\ UNCHANGED meta
    \/ \E draw \in 0..(MaxIceAddresses - 1) : HandleKeypairChange(draw) /\ UNCHANGED meta
    \/ \E sanitizedAddresses \in HostInfos, draw \in 0..(MaxIceAddresses - 1) :
          HandleICEHostInfo(sanitizedAddresses, draw) /\ UNCHANGED meta
    \/ LookupRetryTimeout /\ UNCHANGED meta
    \/ HandleSuccessfulICEServerAddressUpdate /\ UNCHANGED meta
    \/ HandleFailedICEServerAddressUpdate /\ UNCHANGED meta
    \/ RetryTimeout /\ UNCHANGED meta
    \/ ice.signalConnections < MaxSetups /\ HandleTempDomainSuccess

\* the metaverse heartbeat of a server with a domain ID; a reply to a request
\* for a temporary name arrives only while such a request is on the wire
NextMetaverse ==
    \/ MetaverseHeartbeatTimeout
    \/ PerformIPAddressUpdate
    \/ MetaverseHeartbeatAccepted
    \/ \E error \in HeartbeatErrors : HandleMetaverseHeartbeatError(error)
    \/ meta.tempNameRequests > 0 /\ HandleTempDomainSuccess
    \/ HandleTempDomainError

\* the ice-server's count of the denials it has answered in a row: an ACK, a
\* new keypair being asked for and a change of ice-server start it again
DenialsInARowAfter(answer) ==
    IF ice'.iceServerSocket # ice.iceServerSocket THEN 0
    ELSE IF answer = "ack" THEN 0
    ELSE IF answer = "denial"
    THEN IF ice'.numHeartbeatDenials = 0 THEN 0 ELSE denialsInARow + 1
    ELSE denialsInARow

\* an ice-server that answers every heartbeat, with an ACK or a denial, so that
\* no heartbeat goes unanswered and the server stays with it
NextDenials ==
    \/ ProcessICEServerHeartbeatACK(ice.iceServerSocket)
          /\ denialsInARow' = DenialsInARowAfter("ack")
    \/ ProcessICEServerHeartbeatDenialPacket /\ denialsInARow' = DenialsInARowAfter("denial")
    \/ \E draw \in 0..(MaxIceAddresses - 1) :
          HandleKeypairChange(draw) /\ denialsInARow' = DenialsInARowAfter("none")
    \/ \E sanitizedAddresses \in HostInfos, draw \in 0..(MaxIceAddresses - 1) :
          HandleICEHostInfo(sanitizedAddresses, draw)
             /\ denialsInARow' = DenialsInARowAfter("none")
    \/ HandleSuccessfulICEServerAddressUpdate /\ UNCHANGED denialsInARow

-----------------------------------------------------------------------------
(* Replacement of the entities file *)

\* the scene the entities file holds at first, and those that are uploaded
Scenes == 0..MaxScenes

\* what reading a file that holds no scene yields
NoScene == MaxScenes + 1

\* the gzipped bytes of a scene: OctreeUtils::RawEntityData::toGzippedByteArray
toGzippedByteArray(scene) == <<"gzip header", scene, "gzip trailer">>

\* the uncompressed JSON of a scene
toByteArray(scene) == <<"json", scene>>

\* gunzip followed by RawEntityData::readOctreeDataInfoFromData: the scene of a
\* complete gzip stream or of plain JSON, none for anything else
readOctreeDataInfoFromData(bytes) ==
    IF \E scene \in Scenes : bytes \in {toGzippedByteArray(scene), toByteArray(scene)}
    THEN CHOOSE scene \in Scenes : bytes \in {toGzippedByteArray(scene), toByteArray(scene)}
    ELSE NoScene

\* RawEntityData::readOctreeDataInfoFromFile
readOctreeDataInfoFromFile(file) ==
    IF file.exists THEN readOctreeDataInfoFromData(file.bytes) ELSE NoScene

NoFile == [exists |-> FALSE, bytes |-> <<>>]

\* the bodies a content upload may carry
UploadBodies ==
    {toGzippedByteArray(scene) : scene \in 1..MaxScenes}
        \cup {toByteArray(scene) : scene \in 1..MaxScenes}
        \cup {<<"not an octree">>}

\* handleOctreeFileReplacement writing the body it was given without reading
\* its header
UploadOpen_NoValidation(octreeFile) ==
    /\ swap.pc = "idle"
    /\ files' = [files EXCEPT !.replacement = [exists |-> TRUE, bytes |-> octreeFile]]
    /\ swap' = [swap EXCEPT !.pc = "restart", !.refused = FALSE]

\* DomainServer::handleOctreeFileReplacement up to the open of the .replace
\* file: an invalid body is refused
UploadOpen(octreeFile) ==
    /\ swap.pc = "idle"
    /\ IF readOctreeDataInfoFromData(octreeFile) # NoScene
       THEN /\ files' = [files EXCEPT !.replacement = [exists |-> TRUE, bytes |-> <<>>]]
            /\ swap' = [swap EXCEPT !.pc = "uploadWrite",
                                    !.data = readOctreeDataInfoFromData(octreeFile),
                                    !.refused = FALSE]
       ELSE /\ swap' = [swap EXCEPT !.refused = TRUE]
            /\ UNCHANGED files

\* handleOctreeFileReplacement: replacementFile.write, chunk after chunk, then
\* the queued restart
UploadWrite ==
    /\ swap.pc = "uploadWrite"
    /\ LET compressedOctree == toGzippedByteArray(swap.data)
           written == Len(files.replacement.bytes)
       IN /\ files' = [files EXCEPT !.replacement.bytes =
                                        Append(@, compressedOctree[written + 1])]
          /\ swap' = [swap EXCEPT !.pc = IF written + 1 = Len(compressedOctree)
                                         THEN "restart" ELSE "uploadWrite"]

\* DomainServer::restart, or a start after the process was killed: the
\* constructor calls maybeHandleReplacementEntityFile
Restart ==
    /\ swap.pc \in {"restart", "down"}
    /\ swap' = [swap EXCEPT !.pc = "read"]
    /\ UNCHANGED files

\* processOctreeDataRequestMessage calls maybeHandleReplacementEntityFile
ProcessOctreeDataRequestMessage ==
    /\ swap.pc = "idle"
    /\ swap' = [swap EXCEPT !.pc = "read"]
    /\ UNCHANGED files

\* maybeHandleReplacementEntityFile: data.readOctreeDataInfoFromFile
SwapRead ==
    /\ swap.pc = "read"
    /\ IF readOctreeDataInfoFromFile(files.replacement) = NoScene
       THEN swap' = [swap EXCEPT !.pc = "idle"]
       ELSE swap' = [swap EXCEPT !.pc = "remove",
                                 !.data = readOctreeDataInfoFromFile(files.replacement),
                                 !.old = readOctreeDataInfoFromFile(files.entities)]
    /\ UNCHANGED files

\* maybeHandleReplacementEntityFile going on after a remove that failed
SwapRemove_IgnoresFailure(removed) ==
    /\ swap.pc = "remove"
    /\ files' = IF removed THEN [files EXCEPT !.replacement = NoFile] ELSE files
    /\ swap' = [swap EXCEPT !.pc = "open"]

\* maybeHandleReplacementEntityFile: replacementFile.remove, which may fail
SwapRemove(removed) ==
    /\ swap.pc = "remove"
    /\ IF removed
       THEN /\ files' = [files EXCEPT !.replacement = NoFile]
            /\ swap' = [swap EXCEPT !.pc = "open"]
       ELSE /\ swap' = [swap EXCEPT !.pc = "idle"]
            /\ UNCHANGED files

\* maybeHandleReplacementEntityFile: currentFile.open(QIODevice::WriteOnly),
\* which truncates the entities file, or fails and leaves it
SwapOpen(opened) ==
    /\ swap.pc = "open"
    /\ IF opened
       THEN /\ files' = [files EXCEPT !.entities = [exists |-> TRUE, bytes |-> <<>>]]
            /\ swap' = [swap EXCEPT !.pc = "write"]
       ELSE /\ swap' = [swap EXCEPT !.pc = "idle"]
            /\ UNCHANGED files

\* maybeHandleReplacementEntityFile: currentFile.write(gzippedData), chunk
\* after chunk
SwapWrite ==
    /\ swap.pc = "write"
    /\ LET gzippedData == toGzippedByteArray(swap.data)
           written == Len(files.entities.bytes)
       IN /\ files' = [files EXCEPT !.entities.bytes = Append(@, gzippedData[written + 1])]
          /\ swap' = [swap EXCEPT !.pc = IF written + 1 = Len(gzippedData)
                                         THEN "idle" ELSE "write",
                                  !.completed = written + 1 = Len(gzippedData)]

\* DomainServer::processOctreeDataPersistMessage: the body of the packet is
\* written over the entities file, whether it parses or not
ProcessOctreeDataPersistMessage(data) ==
    /\ swap.pc = "idle"
    /\ files' = [files EXCEPT !.entities = [exists |-> TRUE, bytes |-> data]]
    /\ UNCHANGED swap

\* the process is killed
Kill ==
    /\ swap.pc # "down"
    /\ swap' = [swap EXCEPT !.pc = "down", !.killedAt = swap.pc]
    /\ UNCHANGED files

\* the disk and the process once the constructor has run with nothing to replace
InitSwap ==
    /\ files = [entities |-> [exists |-> TRUE, bytes |-> toGzippedByteArray(0)],
                replacement |-> NoFile]
    /\ swap = [pc |-> "idle", data |-> NoScene, old |-> NoScene, completed |-> FALSE,
               killedAt |-> "none", refused |-> FALSE]

NextSwap ==
    \/ \E octreeFile \in UploadBodies : UploadOpen(octreeFile)
    \/ UploadWrite
    \/ Restart
    \/ ProcessOctreeDataRequestMessage
    \/ SwapRead
    \/ \E removed \in BOOLEAN : SwapRemove(removed)
    \/ \E opened \in BOOLEAN : SwapOpen(opened)
    \/ SwapWrite
    \/ Kill

\* the content replacement together with the entity server persisting its octree
NextPersist ==
    \/ NextSwap
    \/ \E data \in UploadBodies : ProcessOctreeDataPersistMessage(data)

-----------------------------------------------------------------------------
(* The HTTP server *)

HttpMethods == {"GET", "POST", "DELETE"}

\* the paths of the requests; {uuid} stands for the UUID the request names
HttpPaths == {"/id", "/assignment/{uuid}", "/assignments.json", "/nodes.json",
              "/assignment", "/nodes/{uuid}/", "/settings.json"}

\* an HTTPConnection nothing has been written to
NoResponse == [status |-> 0, body |-> "none"]

respond(status, body) == [status |-> status, body |-> body]

\* the assignment object the node is bound to in _allAssignments (0: none)
AssignmentOfNode(uuid) ==
    IF uuid \in Live /\ nodes[uuid].assignmentUUID \in DOMAIN allAssignments
    THEN allAssignments[nodes[uuid].assignmentUUID]
    ELSE 0

\* handleHTTPRequest answering GET /nodes.json ahead of the authentication check
UnauthenticatedRoute_NodesToo(method, path, uuid) ==
    IF method = "GET" /\ path = "/nodes.json" THEN respond(200, "nodes")
    ELSE IF method = "GET" /\ path = "/id" THEN respond(200, "domain id")
    ELSE NoResponse

\* DomainServer::handleHTTPRequest above the authentication check: GET of a
\* scripted assignment by the UUID of its node, and GET /id. A response of
\* status 0 and body "not handled" is the handler returning false.
UnauthenticatedRoute(method, path, uuid) ==
    IF method = "GET" /\ path = "/assignment/{uuid}"
    THEN IF AssignmentOfNode(uuid) # 0 /\ assignments[AssignmentOfNode(uuid)].type = "AgentType"
         THEN IF assignments[AssignmentOfNode(uuid)].uuid \in web.ephemeralACScripts
              THEN respond(200, "script")
              ELSE respond(404, "Resource not found.")
         ELSE respond(0, "not handled")
    ELSE IF method = "GET" /\ path = "/id" THEN respond(200, "domain id")
    ELSE NoResponse

\* QUuid::createUuid() for an OAuth state: one no authorization in progress uses
FreshStateUuid ==
    Min({k \in 1..(MaxWebSessions + 1) :
            k \notin web.webAuthenticationStateSet \cup web.pendingOAuthConnections})

\* NetworkingConstants::METAVERSE_SERVER_URL
METAVERSE_SERVER_URL == "https://metaverse"

\* DomainServer::optionallySetupOAuth: _oauthProviderURL under the setting
\* oauth-provider
optionallySetupOAuth(provider) == IF provider = "" THEN METAVERSE_SERVER_URL ELSE provider

\* a QVariant of the settings: invalid, or valid with a value
Invalid(empty) == [valid |-> FALSE, value |-> empty]
Valid(value) == [valid |-> TRUE, value |-> value]

\* QCryptographicHash::hash(password, Sha256).toHex(), cut to eight digits
Sha256Hex(password) ==
    CASE password = "" -> "e3b0c442"
      [] password = "secret" -> "2bb80d53"
      [] OTHER -> "d9298a10"

\* the Authorization headers of a request, split at ':' after the base64 is
\* decoded: none, a user and a password, or more parts
CredentialLists ==
    {<<>>, <<"admin", "secret">>, <<"admin", "">>, <<"admin", "guess">>, <<"eve", "secret">>,
     <<"admin", "sec", "ret">>}

\* the profiles the OAuth provider answers with
Profiles ==
    {[username |-> "alice", roles |-> {}], [username |-> "bob", roles |-> {}],
     [username |-> "carol", roles |-> {"admin"}]}

\* isAuthenticatedRequest: the branch a request is decided in
Authentication ==
    IF /\ web.oauthProviderURL # ""
       /\ (web.settings.adminUsers.valid \/ web.settings.adminRoles.valid)
    THEN "oauth"
    ELSE IF web.settings.httpUsername.valid THEN "basic"
    ELSE "open"

\* the test of the session with every stored session taken for an administrator
isAdminSession_Anyone(sessionData) == TRUE

\* isAuthenticatedRequest: the user of the session is in admin-users or has a
\* role that is in admin-roles
isAdminSession(sessionData) ==
    \/ sessionData.username \in web.settings.adminUsers.value
    \/ /\ web.settings.adminRoles.value # {}
       /\ sessionData.roles \cap web.settings.adminRoles.value # {}

\* the comparison of the basic branch with the password hashed also when empty
basicCredentialsMatch_AlwaysHashed(credentialList) ==
    /\ Len(credentialList) = 2
    /\ web.settings.httpUsername.value = credentialList[1]
    /\ Sha256Hex(credentialList[2]) =
           (IF web.settings.httpPassword.valid THEN web.settings.httpPassword.value ELSE "")

\* isAuthenticatedRequest, the basic branch: the user of the header is
\* http_username and the hex digest of its password, or "" for an empty
\* password, is http_password, or "" when that is not set
basicCredentialsMatch(credentialList) ==
    /\ Len(credentialList) = 2
    /\ LET headerUsername == credentialList[1]
           headerPassword == credentialList[2]
           settingsPassword == IF web.settings.httpPassword.valid
                               THEN web.settings.httpPassword.value ELSE ""
           hexHeaderPassword == IF headerPassword = "" THEN "" ELSE Sha256Hex(headerPassword)
       IN web.settings.httpUsername.value = headerUsername /\ hexHeaderPassword = settingsPassword

\* DomainServer::isAuthenticatedRequest: whether the request is accepted, the
\* response written when it is not, and the state set it leaves
isAuthenticatedRequest(cookieUUID, basicAuth, requestedWithXHR) ==
    IF Authentication = "oauth"
    THEN IF cookieUUID # NullUuid /\ cookieUUID \in DOMAIN web.cookieSessionHash
         THEN IF isAdminSession(web.cookieSessionHash[cookieUUID])
              THEN [accepted |-> TRUE, response |-> NoResponse,
                    states |-> web.webAuthenticationStateSet]
              ELSE [accepted |-> FALSE, response |-> respond(401, "no permission"),
                    states |-> web.webAuthenticationStateSet]
         ELSE IF requestedWithXHR
              THEN [accepted |-> FALSE, response |-> respond(401, "no permission"),
                    states |-> web.webAuthenticationStateSet]
              ELSE [accepted |-> FALSE, response |-> respond(302, "oauth authorize"),
                    states |-> web.webAuthenticationStateSet \cup {FreshStateUuid}]
    ELSE IF Authentication = "basic"
    THEN IF basicCredentialsMatch(basicAuth)
         THEN [accepted |-> TRUE, response |-> NoResponse,
               states |-> web.webAuthenticationStateSet]
         ELSE [accepted |-> FALSE, response |-> respond(401, "WWW-Authenticate"),
               states |-> web.webAuthenticationStateSet]
    ELSE [accepted |-> TRUE, response |-> NoResponse, states |-> web.webAuthenticationStateSet]

\* POST /assignment without the insert into _allAssignments
ScriptUpload_NotIndexed(method, path) ==
    /\ uuidCounter < StartupUuids + MaxUuids
    /\ Cardinality(web.ephemeralACScripts) < MaxScripts
    /\ assignments' = Append(assignments, [uuid |-> FreshUuid(UsedUuids), type |-> "AgentType",
                                           pool |-> "", isStatic |-> FALSE])
    /\ unfulfilledAssignments' = Append(unfulfilledAssignments, Len(assignments) + 1)
    /\ uuidCounter' = uuidCounter + 1
    /\ web' = [web EXCEPT !.ephemeralACScripts = @ \cup {FreshUuid(UsedUuids)},
                          !.request = [method |-> method, path |-> path],
                          !.response = respond(200, "none"),
                          !.authenticated = "accepted"]
    /\ UNCHANGED <<nodes, allAssignments, pendingAssignedNodes, packetVerdict, sent, disallowed, crashed>>

\* handleHTTPRequest: POST /assignment, the upload of a script
ScriptUpload(method, path) ==
    /\ uuidCounter < StartupUuids + MaxUuids
    /\ Cardinality(web.ephemeralACScripts) < MaxScripts
    /\ assignments' = Append(assignments, [uuid |-> FreshUuid(UsedUuids), type |-> "AgentType",
                                           pool |-> "", isStatic |-> FALSE])
    /\ unfulfilledAssignments' = Append(unfulfilledAssignments, Len(assignments) + 1)
    /\ allAssignments' = Put(allAssignments, FreshUuid(UsedUuids), Len(assignments) + 1)
    /\ uuidCounter' = uuidCounter + 1
    /\ web' = [web EXCEPT !.ephemeralACScripts = @ \cup {FreshUuid(UsedUuids)},
                          !.request = [method |-> method, path |-> path],
                          !.response = respond(200, "none"),
                          !.authenticated = "accepted"]
    /\ UNCHANGED <<nodes, pendingAssignedNodes, packetVerdict, sent, disallowed, crashed>>

\* handleHTTPRequest below the authentication check, for a request that leaves
\* the registry alone
AuthenticatedRoute(method, path, uuid) ==
    IF method = "GET" /\ path = "/assignments.json" THEN respond(200, "assignments")
    ELSE IF method = "GET" /\ path = "/nodes.json" THEN respond(200, "nodes")
    ELSE IF method = "DELETE" /\ path = "/nodes/{uuid}/" THEN NoResponse
    ELSE respond(0, "settings manager")

\* DomainServer::handleHTTPRequest
HandleHTTPRequest(method, path, uuid, cookieUUID, basicAuth, requestedWithXHR) ==
    /\ ~crashed
    /\ LET early == UnauthenticatedRoute(method, path, uuid)
           auth == isAuthenticatedRequest(cookieUUID, basicAuth, requestedWithXHR)
           answered == [web EXCEPT !.request = [method |-> method, path |-> path]]
       IN IF early # NoResponse
          THEN /\ web' = [answered EXCEPT !.response = early, !.authenticated = "not asked"]
               /\ UNCHANGED registryVars
          ELSE IF ~auth.accepted
          THEN /\ Cardinality(auth.states \cup web.pendingOAuthConnections) <= MaxWebSessions
               /\ web' = [answered EXCEPT !.response = auth.response,
                                          !.authenticated = "rejected",
                                          !.webAuthenticationStateSet = auth.states]
               /\ UNCHANGED registryVars
          ELSE IF method = "POST" /\ path = "/assignment"
          THEN ScriptUpload(method, path)
          ELSE IF method = "DELETE" /\ path = "/nodes/{uuid}/" /\ uuid \in Live
          THEN /\ KillEffects(uuid, FALSE)
               /\ web' = [answered EXCEPT !.response = respond(200, "none"),
                                          !.authenticated = "accepted"]
          ELSE /\ web' = [answered EXCEPT !.response = AuthenticatedRoute(method, path, uuid),
                                          !.authenticated = "accepted"]
               /\ UNCHANGED registryVars

\* handleHTTPSRequest for /oauth with the state looked up and left in the set
HandleHTTPSRequest_KeepsState(hasCode, stateUUID) ==
    /\ ~crashed
    /\ LET answered == [web EXCEPT !.request = [method |-> "GET", path |-> "/oauth"],
                                   !.authenticated = "not asked"]
       IN IF hasCode /\ stateUUID # NullUuid /\ stateUUID \in web.webAuthenticationStateSet
          THEN web' = [answered EXCEPT !.pendingOAuthConnections = @ \cup {stateUUID},
                                       !.response = NoResponse]
          ELSE web' = [answered EXCEPT !.response = respond(400, "none")]
    /\ UNCHANGED registryVars

\* DomainServer::handleHTTPSRequest for /oauth: a callback that carries a code
\* and a known state UUID is held while the token is fetched, any other gets 400
HandleHTTPSRequest(hasCode, stateUUID) ==
    /\ ~crashed
    /\ LET answered == [web EXCEPT !.request = [method |-> "GET", path |-> "/oauth"],
                                   !.authenticated = "not asked"]
       IN IF hasCode /\ stateUUID # NullUuid /\ stateUUID \in web.webAuthenticationStateSet
          THEN web' = [answered EXCEPT !.webAuthenticationStateSet = @ \ {stateUUID},
                                       !.pendingOAuthConnections = @ \cup {stateUUID},
                                       !.response = NoResponse]
          ELSE web' = [answered EXCEPT !.response = respond(400, "none")]
    /\ UNCHANGED registryVars

\* the profile of the user arrives: setupCookieHeadersFromProfileReply stores a
\* session under a new cookie and the held connection is redirected
HandleProfileRequestFinished(stateUUID, profile) ==
    /\ ~crashed
    /\ stateUUID \in web.pendingOAuthConnections
    /\ Cardinality(DOMAIN web.cookieSessionHash) < MaxWebSessions
    /\ web' = [web EXCEPT !.pendingOAuthConnections = @ \ {stateUUID},
                          !.cookieSessionHash =
                              Put(@, Cardinality(DOMAIN web.cookieSessionHash) + 1, profile),
                          !.request = [method |-> "GET", path |-> "/oauth"],
                          !.response = respond(302, "set cookie"),
                          !.authenticated = "not asked"]
    /\ UNCHANGED registryVars

\* DomainServerSettingsManager: the list admin-users is saved anew
SettingsChanged(adminUsers) ==
    /\ ~crashed
    /\ adminUsers # web.settings.adminUsers
    /\ web' = [web EXCEPT !.settings.adminUsers = adminUsers]
    /\ UNCHANGED registryVars

\* the HTTP server after the constructor, under the settings, with no session
InitWebOf(settings) ==
    web = [settings |-> settings, oauthProviderURL |-> optionallySetupOAuth(settings.oauthProvider),
           cookieSessionHash |-> <<>>,
           webAuthenticationStateSet |-> {}, pendingOAuthConnections |-> {},
           ephemeralACScripts |-> {},
           request |-> [method |-> "none", path |-> "none"],
           response |-> NoResponse, authenticated |-> "not asked"]

\* settings without any key of the administration
OpenSettings ==
    [oauthProvider |-> "", adminUsers |-> Invalid({}), adminRoles |-> Invalid({}),
     httpUsername |-> Invalid(""), httpPassword |-> Invalid("")]

\* the values admin-users takes
AdminUsersSettings == {Invalid({}), Valid({}), Valid({"alice"})}

\* the settings of an administration by OAuth, by basic authentication, or open
InitWeb ==
    \E settings \in {[OpenSettings EXCEPT !.adminUsers = Valid({"alice"})],
                      [OpenSettings EXCEPT !.httpUsername = Valid("admin"),
                                           !.httpPassword = Valid(Sha256Hex("secret"))],
                      OpenSettings} :
        InitWebOf(settings)

\* the HTTP server in front of a registry workers of scripted assignments join
NextHTTP ==
    \/ \E method \in HttpMethods, path \in HttpPaths,
          uuid \in Live \cup {NullUuid},
          cookieUUID \in 0..MaxWebSessions,
          basicAuth \in {<<>>, <<"admin", "secret">>, <<"admin", "guess">>},
          requestedWithXHR \in BOOLEAN :
          HandleHTTPRequest(method, path, uuid, cookieUUID, basicAuth, requestedWithXHR)
    \/ \E hasCode \in BOOLEAN, stateUUID \in 0..MaxWebSessions :
          HandleHTTPSRequest(hasCode, stateUUID)
    \/ \E stateUUID \in 1..MaxWebSessions, profile \in Profiles :
          HandleProfileRequestFinished(stateUUID, profile)
    \/ ProcessRequestAssignmentPacket(WorkerAddress, "AgentType", "") /\ UNCHANGED web
    \/ \E cloneUUID \in DOMAIN pendingAssignedNodes :
          ProcessAssignmentConnectRequest(cloneUUID, "Agent", {}) /\ UNCHANGED web

-----------------------------------------------------------------------------
(* Startup *)

\* setupNodeListAndAssignments under the settings config
InitRegistryOf(config) ==
    /\ nodes = <<>>
    /\ \E order \in SortedOrdersOf(ParsedAssignmentsOf(config)) :
          LET st == addStaticAssignmentsToQueue(
                        [assignments |-> ParsedAssignmentsOf(config),
                         all |-> ParsedHashOf(config),
                         queue |-> <<>>, used |-> DOMAIN ParsedHashOf(config)], order, 1)
          IN /\ assignments = st.assignments
             /\ allAssignments = st.all
             /\ unfulfilledAssignments = st.queue
             /\ uuidCounter = Cardinality(st.used)
    /\ pendingAssignedNodes = <<>>
    /\ packetVerdict = NoVerdict
    /\ sent = {}
    /\ disallowed = NullAddress
    /\ received = {}
    /\ denialsInARow = 0
    /\ crashed = FALSE

InitRegistry == InitRegistryOf(StaticConfig)

Init == InitRegistry /\ InitICE /\ InitMetaverseOf("MetaverseTemporaryDomain") /\ InitSwap /\ InitWeb

\* the steps of the registry for interface clients connecting under the UUIDs
\* agents and workers asking for the assignment types reqTypes
NextRegistry(agents, reqTypes) ==
    \/ \E uuid \in agents, interest \in InterestSets :
          ProcessAgentConnectRequest(uuid, interest, AgentAddress(uuid))
    \/ \E senderAddr \in {WorkerAddress, <<192, 168, 1, 7>>, <<8, 8, 4, 4>>}, reqType \in reqTypes, reqPool \in {""} :
          ProcessRequestAssignmentPacket(senderAddr, reqType, reqPool)
    \/ \E cloneUUID \in DOMAIN pendingAssignedNodes, nodeType \in NodeTypes,
          interest \in InterestSets :
          ProcessAssignmentConnectRequest(cloneUUID, nodeType, interest)
    \/ \E uuid \in Live, interest \in InterestSets :
          ProcessListRequestPacket(uuid, interest)
    \/ \E localID \in {nodes[u].localID : u \in Live} :
          ProcessNodeDisconnectRequestPacket(localID)
    \/ \E uuid \in Live : KillNodeWithUUID(uuid)

\* two interface clients and the workers of one assignment type
Spec == Init /\ [][NextRegistry(AgentUuids, {"AudioMixerType"}) /\ UNCHANGED <<ice, swapVars, web, meta, observers>>]_vars

\* the local IDs a datagram may carry: those of the interface clients and one
\* that no node holds
PacketLocalIDs == {findOrCreateLocalID(u) : u \in AgentUuids} \cup {findOrCreateLocalID(NullUuid)}

\* the packet filter in front of a registry of interface clients
NextPackets ==
    \/ \E uuid \in AgentUuids, interest \in InterestSets :
          ProcessAgentConnectRequest(uuid, interest, AgentAddress(uuid))
    \/ \E uuid \in Live : KillNodeWithUUID(uuid)
    \/ \E sourced \in BOOLEAN, localSourceID \in PacketLocalIDs, senderSockAddr \in Addresses,
          withSourceOK \in BOOLEAN, nodeListOK \in BOOLEAN :
          ReceivePacket(sourced, localSourceID, senderSockAddr, withSourceOK, nodeListOK)
    \/ \E uuid \in AgentUuids, interest \in InterestSets, versionMatch \in BOOLEAN,
          hashOK \in BOOLEAN :
          ReceiveConnectRequest(uuid, interest, AgentAddress(uuid), versionMatch, hashOK)

SpecPackets == Init /\ [][NextPackets /\ UNCHANGED <<ice, swapVars, web, meta, observers>>]_vars

\* one interface client and workers asking for any assignment type
SpecAssignments ==
    Init /\ [][NextRegistry({1}, AssignmentTypes \cup {"AllTypes"}) /\ UNCHANGED <<ice, swapVars, web, meta, observers>>]_vars

\* the ICE heartbeat and the metaverse address update
SpecICE == Init /\ [][NextICE /\ UNCHANGED <<registryVars, swapVars, web, observers>>]_vars

\* the ICE heartbeat answered by ACKs and denials
SpecDenials ==
    Init /\ [][NextDenials /\ UNCHANGED <<registryVars, meta, swapVars, web, received>>]_vars

\* DomainServer::setupAutomaticNetworking: a server with a domain ID is a full
\* metaverse domain, or a temporary one when the settings hold a temporary key
DomainTypes == {"MetaverseDomain", "MetaverseTemporaryDomain"}

InitMetaverse ==
    /\ InitRegistry /\ InitICE /\ InitSwap /\ InitWeb
    /\ \E type \in DomainTypes : InitMetaverseOf(type)

\* the metaverse heartbeat, its failures and the temporary names asked for
SpecMetaverse ==
    InitMetaverse /\ [][NextMetaverse /\ UNCHANGED <<registryVars, swapVars, web, observers>>]_vars

\* content uploads, restarts and kills around the entities file
SpecSwap == Init /\ [][NextSwap /\ UNCHANGED <<registryVars, ice, web, meta, observers>>]_vars

\* HTTP requests, OAuth callbacks and the workers of uploaded scripts
SpecHTTP == Init /\ [][NextHTTP /\ UNCHANGED <<ice, meta, swapVars, observers>>]_vars

\* every combination of the keys of the administration
InitAuth ==
    /\ InitRegistry /\ InitICE /\ InitMetaverseOf("MetaverseTemporaryDomain") /\ InitSwap
    /\ \E oauthProvider \in {"", "https://oauth"}, adminUsers \in AdminUsersSettings,
          adminRoles \in {Invalid({}), Valid({"admin"})},
          httpUsername \in {Invalid(""), Valid("admin")},
          httpPassword \in {Invalid(""), Valid(Sha256Hex("secret"))} :
          InitWebOf([oauthProvider |-> oauthProvider, adminUsers |-> adminUsers,
                     adminRoles |-> adminRoles, httpUsername |-> httpUsername,
                     httpPassword |-> httpPassword])

\* the administration: requests for a page behind the authentication, OAuth
\* callbacks, profiles and changes of admin-users
NextAuth ==
    \/ \E cookieUUID \in 0..MaxWebSessions, basicAuth \in CredentialLists,
          requestedWithXHR \in BOOLEAN :
          HandleHTTPRequest("GET", "/nodes.json", NullUuid, cookieUUID, basicAuth,
                            requestedWithXHR)
    \/ \E hasCode \in BOOLEAN, stateUUID \in 0..MaxWebSessions :
          HandleHTTPSRequest(hasCode, stateUUID)
    \/ \E stateUUID \in 1..MaxWebSessions, profile \in Profiles :
          HandleProfileRequestFinished(stateUUID, profile)
    \/ \E adminUsers \in AdminUsersSettings : SettingsChanged(adminUsers)

SpecAuth == InitAuth /\ [][NextAuth /\ UNCHANGED <<ice, meta, swapVars, observers>>]_vars

\* content uploads and restarts while the entity server persists its octree
SpecPersist == Init /\ [][NextPersist /\ UNCHANGED <<registryVars, ice, web, meta, observers>>]_vars

\* the server started under the settings with two audio-mixer assignments
InitQueue ==
    /\ InitRegistryOf(TwoAudioMixersConfig) /\ InitICE /\ InitSwap /\ InitWeb
    /\ InitMetaverseOf("MetaverseTemporaryDomain")

\* the life of the assignments: script uploads, requests of workers, workers
\* joining and dying
NextQueue ==
    \/ \E basicAuth \in {<<>>, <<"admin", "secret">>} :
          HandleHTTPRequest("POST", "/assignment", NullUuid, NullUuid, basicAuth, TRUE)
    \/ \E senderAddr \in {WorkerAddress, <<192, 168, 1, 7>>, <<127, 0, 4, 4>>, <<192, 169, 0, 1>>},
          reqType \in {"AudioMixerType", "AgentType"} :
          ProcessRequestAssignmentPacket(senderAddr, reqType, "") /\ UNCHANGED web
    \/ \E cloneUUID \in DOMAIN pendingAssignedNodes, nodeType \in {"AudioMixer", "Agent"} :
          ProcessAssignmentConnectRequest(cloneUUID, nodeType, {}) /\ UNCHANGED web
    \/ \E uuid \in Live : KillNodeWithUUID(uuid) /\ UNCHANGED web

SpecQueue == InitQueue /\ [][NextQueue /\ UNCHANGED <<ice, meta, swapVars, observers>>]_vars

\* settings whose static assignments name pools
PooledConfigs ==
    { << [type |-> "AudioMixerType", pool |-> "blue"], [type |-> "AudioMixerType", pool |-> ""] >>,
      << [type |-> "AudioMixerType", pool |-> ""], [type |-> "AvatarMixerType", pool |-> "blue"] >>,
      << [type |-> "AvatarMixerType", pool |-> "red"], [type |-> "AvatarMixerType", pool |-> "blue"] >> }

\* the pools a request may name
RequestPools == {"", "blue", "red"}

InitDeploy ==
    /\ \E config \in PooledConfigs : InitRegistryOf(config)
    /\ InitICE /\ InitSwap /\ InitMetaverseOf("MetaverseTemporaryDomain")
    /\ InitWebOf(OpenSettings)

\* workers asking for any type in any pool, joining and dying
NextDeploy ==
    \/ \E reqType \in AssignmentTypes \cup {"AllTypes"}, reqPool \in RequestPools :
          ProcessRequestAssignmentPacket(WorkerAddress, reqType, reqPool)
    \/ \E cloneUUID \in DOMAIN pendingAssignedNodes, nodeType \in {"AudioMixer", "AvatarMixer"} :
          ProcessAssignmentConnectRequest(cloneUUID, nodeType, {})
    \/ \E uuid \in Live : KillNodeWithUUID(uuid)

SpecDeploy == InitDeploy /\ [][NextDeploy /\ UNCHANGED <<ice, meta, swapVars, web, observers>>]_vars

\* the interest set the interface clients of the meeting declare
MeetingInterest == {"AvatarMixer", "Agent"}

\* the peers' side of a step: a node keeps what it was sent in its session
\* about nodes that are still live, and adds what the step sends it
Deliver ==
    {p \in received \cup sent' :
        /\ p.to \in DOMAIN nodes'
        /\ p.about \in DOMAIN nodes' \cup {NullUuid}
        /\ \A e \in p.list : e.peer \in DOMAIN nodes'}

\* interface clients that declare MeetingInterest when they connect and when
\* they ask for their list, an avatar mixer, and nodes that leave
NextMeet ==
    \/ \E uuid \in AgentUuids :
          ProcessAgentConnectRequest(uuid, MeetingInterest, AgentAddress(uuid))
    \/ \E uuid \in Live :
          ProcessListRequestPacket(uuid, IF nodes[uuid].type = "Agent" THEN MeetingInterest
                                         ELSE {"Agent"})
    \/ ProcessRequestAssignmentPacket(WorkerAddress, "AvatarMixerType", "")
    \/ \E cloneUUID \in DOMAIN pendingAssignedNodes :
          ProcessAssignmentConnectRequest(cloneUUID, "AvatarMixer", {"Agent"})
    \/ \E localID \in {nodes[u].localID : u \in Live} :
          ProcessNodeDisconnectRequestPacket(localID)

SpecMeet ==
    Init /\ [][NextMeet /\ received' = Deliver
                      /\ UNCHANGED <<ice, meta, swapVars, web, denialsInARow>>]_vars

\* the membership view: interface clients that connect, ask for their list
\* under any interest set and leave, one audio mixer that is deployed and asks
\* for its list, and node data that loses its authentication
NextList ==
    \/ \E uuid \in AgentUuids :
          ProcessAgentConnectRequest(uuid, {"Agent", "AvatarMixer"}, AgentAddress(uuid))
    \/ \E uuid \in Live, interest \in InterestSets :
          ProcessListRequestPacket(uuid, interest)
    \/ /\ pendingAssignedNodes = <<>>
       /\ \A u \in Live : nodes[u].type # "AudioMixer"
       /\ ProcessRequestAssignmentPacket(WorkerAddress, "AudioMixerType", "")
    \/ \E cloneUUID \in DOMAIN pendingAssignedNodes :
          ProcessAssignmentConnectRequest(cloneUUID, "AudioMixer", {"Agent", "AvatarMixer"})
    \/ \E localID \in {nodes[u].localID : u \in Live \cap AgentUuids} :
          ProcessNodeDisconnectRequestPacket(localID)
    \/ \E uuid \in Live : SetIsAuthenticated(uuid, FALSE)

SpecList ==
    Init /\ [][NextList /\ received' = {p \in Deliver : p.kind = "DomainServerAddedNode"}
                      /\ UNCHANGED <<ice, meta, swapVars, web, denialsInARow>>]_vars

-----------------------------------------------------------------------------
(* Properties of the registry *)

\* C1: in every reachable state the session-secret maps of any two live nodes
\* A and B are symmetric: A's map holds an entry for B if and only if B's map
\* holds one for A, and the two entries are the same non-null secret.
C1_SecretsSymmetric ==
    \A a \in Live : \A b \in Live \ {a} :
        /\ (b \in DOMAIN nodes[a].sessionSecretHash) <=> (a \in DOMAIN nodes[b].sessionSecretHash)
        /\ b \in DOMAIN nodes[a].sessionSecretHash =>
              /\ nodes[a].sessionSecretHash[b] # NullUuid
              /\ nodes[a].sessionSecretHash[b] = nodes[b].sessionSecretHash[a]

\* two live nodes share a secret while a third live node shares none with the first
C1_Witness ==
    \E a \in Live, b \in Live, c \in Live :
        /\ a # b /\ b # c /\ a # c
        /\ SecretOf(nodes, a, b) # NullUuid
        /\ SecretOf(nodes, a, c) = NullUuid

\* C2: once a pair of nodes has a secret, every call of connectionSecretForNodes
\* for the pair, in either order, returns that secret and leaves the maps alone,
\* and no step changes the pair's secret while both nodes stay live.
C2_SecretStable ==
    [][\A a \in Live : \A b \in Live \ {a} :
          SecretOf(nodes, a, b) # NullUuid =>
              /\ connectionSecretForNodes(nodes, a, b).secret = SecretOf(nodes, a, b)
              /\ connectionSecretForNodes(nodes, b, a).secret = SecretOf(nodes, a, b)
              /\ connectionSecretForNodes(nodes, a, b).nodes = nodes
              /\ (a \in DOMAIN nodes' /\ b \in DOMAIN nodes') =>
                    /\ SecretOf(nodes', a, b) = SecretOf(nodes, a, b)
                    /\ SecretOf(nodes', b, a) = SecretOf(nodes, a, b)]_vars

\* three live nodes, two pairs of which hold different secrets
C2_Witness ==
    \E a \in Live, b \in Live, c \in Live :
        /\ a # b /\ b # c /\ a # c
        /\ SecretOf(nodes, a, b) # NullUuid
        /\ SecretOf(nodes, b, c) # NullUuid
        /\ SecretOf(nodes, a, b) # SecretOf(nodes, b, c)

\* the live nodes bound to the assignment object obj
BoundNodes(obj) == {u \in Live : nodes[u].assignmentUUID = assignments[obj].uuid}

\* the assignment object obj waits in the unfulfilled queue
InQueue(obj) == \E i \in 1..Len(unfulfilledAssignments) : unfulfilledAssignments[i] = obj

\* C3: every static assignment is either bound to exactly one live node or
\* present in the unfulfilled queue, and never both.
C3_StaticBoundOrQueued ==
    \A obj \in DOMAIN assignments :
        assignments[obj].isStatic =>
            \/ Cardinality(BoundNodes(obj)) = 1 /\ ~InQueue(obj)
            \/ BoundNodes(obj) = {} /\ InQueue(obj)

\* a static assignment is bound again under a UUID it got when its first node
\* died, while the other one waits in the queue
C3_Witness ==
    \E obj \in DOMAIN assignments, other \in DOMAIN assignments :
        /\ obj # other
        /\ BoundNodes(obj) # {}
        /\ assignments[obj].uuid > GeneratedUuid(StartupUuids)
        /\ InQueue(other)

\* C10: when a node bound to a static assignment dies, the step that removes it
\* gives the assignment a UUID different from the old one and puts it back in
\* the queue, and dequeueMatchingAssignment with the old UUID finds nothing.
C10_UuidRotatedOnDeath ==
    [][\A u \in Live, old \in DOMAIN allAssignments, obj \in DOMAIN assignments :
          (/\ u \notin DOMAIN nodes'
           /\ nodes[u].assignmentUUID = old
           /\ allAssignments[old] = obj
           /\ assignments[obj].isStatic) =>
              /\ assignments'[obj].uuid # old
              /\ InQueue(obj)'
              /\ \A nodeType \in NodeTypes :
                    dequeueMatchingAssignment(old, nodeType)'.obj = 0]_vars

\* a clone is still pending whose assignment UUID no assignment carries any more
C10_Witness ==
    \E c \in DOMAIN pendingAssignedNodes :
        \A obj \in DOMAIN assignments : assignments[obj].uuid # pendingAssignedNodes[c]

\* C8: a sourced packet is accepted only if its local ID resolves to a live
\* node whose recorded sending address equals the sender's or is RFC 1918
\* private like the sender's; every other sourced packet is dropped, leaving
\* the process running.
C8_SourcedPacketFiltered ==
    (packetVerdict.sourced /\ (packetVerdict.verdict # "none" \/ crashed)) =>
        \/ /\ packetVerdict.verdict = "accepted"
           /\ \E u \in nodeWithLocalID(packetVerdict.localID) :
                 \/ nodes[u].sendingSockAddr = packetVerdict.sender
                 \/ /\ hasPrivateAddress(nodes[u].sendingSockAddr)
                    /\ hasPrivateAddress(packetVerdict.sender)
           /\ ~crashed
        \/ /\ packetVerdict.verdict = "dropped"
           /\ ~crashed

\* a sourced packet whose local ID no live node holds has passed the filter
C8_Witness ==
    /\ packetVerdict.sourced
    /\ packetVerdict.verdict = "dropped"
    /\ nodeWithLocalID(packetVerdict.localID) = {}
    /\ Live # {}

-----------------------------------------------------------------------------
(* Properties of the ICE heartbeat and the address update *)

\* the step in which the fourth unanswered heartbeat is due: the counter passes
\* the threshold, is reset, and the heartbeat sent to the new socket counts one
FailoverStep ==
    /\ ice.noReplyICEHeartbeats = FAILOVER_NO_REPLY_ICE_HEARTBEATS
    /\ ice'.noReplyICEHeartbeats = 1

\* the resolved addresses that have not failed once the current one has
FreshCandidates ==
    Range(ice.iceServerAddresses) \ (ice.failedIceServerAddresses \cup {ice.iceServerSocket})

\* C5 as stated: after three heartbeats without a reply the next heartbeat
\* goes to an address other than the one that failed, whatever the resolved
\* list and the failed set hold.
C5_FailoverAlwaysDifferent ==
    [][FailoverStep =>
          /\ ice'.heartbeatsSent # <<>>
          /\ \A i \in DOMAIN ice'.heartbeatsSent :
                ice'.heartbeatsSent[i] # ice.iceServerSocket]_vars

\* C5: after three heartbeats without a reply the next heartbeat goes to a
\* resolved address that has not failed, hence to another one than the address
\* that failed, whenever the resolved list holds such an address; when every
\* resolved address has failed the failed set is emptied and the heartbeat goes
\* to some resolved address, which may be the one that just failed.
C5_FailoverDifferentWhenFresh ==
    [][FailoverStep =>
          /\ ice'.heartbeatsSent # <<>>
          /\ \A i \in DOMAIN ice'.heartbeatsSent :
                /\ ice'.heartbeatsSent[i] = ice'.iceServerSocket
                /\ IF FreshCandidates # {}
                   THEN /\ ice'.heartbeatsSent[i] \in FreshCandidates
                        /\ ice'.heartbeatsSent[i] # ice.iceServerSocket
                        /\ ice.iceServerSocket \in ice'.failedIceServerAddresses
                   ELSE /\ ice'.heartbeatsSent[i] \in Range(ice.iceServerAddresses)
                        /\ ice'.failedIceServerAddresses = {}]_vars

\* a failover has just moved the heartbeat off a failed address: both packets
\* of the step went to an address that is not in the failed set
C5_Witness ==
    /\ Len(ice.heartbeatsSent) = 2
    /\ ice.failedIceServerAddresses # {}
    /\ ice.heartbeatsSent[2] \notin ice.failedIceServerAddresses
    /\ ice.noReplyICEHeartbeats = 1

\* C6: at most one ice-server address update is on the wire at any time.
C6_OneUpdateInFlight ==
    /\ Len(ice.apiRequests) <= 1
    /\ ice.apiRequests # <<>> => ice.inProgress

\* an update is on the wire while another one was asked for and a retry timer
\* of an earlier failure is still pending
C6_Witness ==
    /\ Len(ice.apiRequests) = 1
    /\ ice.redo
    /\ ice.retryTimers > 0

\* C7: when the request on the wire completes and an update was asked for
\* while it was on the wire, exactly one follow-up request is started, carrying
\* the ice-server address current at that moment, and the redo flag is cleared;
\* when none was asked for, a success starts no request.
C7_OneFollowUp ==
    [][ice'.handler \in {"updateSuccess", "updateFailure"} /\ ice.apiRequests # <<>> =>
          IF ice.askedWhileInFlight
          THEN /\ ice'.apiRequests = Tail(ice.apiRequests) \o <<IceAddressPayload(ice')>>
               /\ ~ice'.redo
               /\ ice'.inProgress
          ELSE ice'.handler = "updateSuccess" =>
                  /\ ice'.apiRequests = Tail(ice.apiRequests)
                  /\ ~ice'.inProgress]_vars

\* a follow-up is on the wire: a completion has just started a request that
\* carries the address of a connected ice-server
C7_Witness ==
    /\ ice.handler \in {"updateSuccess", "updateFailure"}
    /\ Len(ice.apiRequests) = 1
    /\ ice.apiRequests[1] # ZeroAddress
    /\ ~ice.redo

-----------------------------------------------------------------------------
(* Properties of the content replacement *)

\* C4: whenever the process is down after a kill that fell inside
\* maybeHandleReplacementEntityFile, the entities file parses and holds either
\* the scene it held before the replacement or the replacing scene; and once a
\* replacement has run to completion the file holds the replacing scene.
C4_AtomicSceneSwap ==
    /\ (swap.pc = "down" /\ swap.killedAt \in {"read", "remove", "open", "write"}) =>
          /\ readOctreeDataInfoFromFile(files.entities) # NoScene
          /\ swap.killedAt # "read" =>
                readOctreeDataInfoFromFile(files.entities) \in {swap.old, swap.data}
    /\ (swap.pc = "idle" /\ swap.completed) =>
          readOctreeDataInfoFromFile(files.entities) = swap.data

\* the process was killed after the entities file was opened for writing and
\* before the write finished
C4_Witness ==
    /\ swap.pc = "down"
    /\ swap.killedAt = "write"
    /\ ~files.replacement.exists

-----------------------------------------------------------------------------
(* Properties of the HTTP server *)

\* the last response carries data of the domain with status 200
ServedDomainData == web.response.status = 200 /\ web.response.body # "none"

\* C9 as stated: every route other than GET /id and the OAuth callback answers
\* 200 with domain data only after isAuthenticatedRequest accepted the request.
C9_OnlyIdAndOAuthExempt ==
    (ServedDomainData /\ web.request # [method |-> "GET", path |-> "/id"]
                      /\ web.request.path # "/oauth") =>
        web.authenticated = "accepted"

\* C9: every route other than GET /id, GET /assignment/{uuid} of the node of a
\* scripted assignment and the OAuth callback answers 200 with domain data only
\* after isAuthenticatedRequest accepted the request.
C9_AuthenticatedExceptExempt ==
    (ServedDomainData /\ web.request # [method |-> "GET", path |-> "/id"]
                      /\ web.request # [method |-> "GET", path |-> "/assignment/{uuid}"]
                      /\ web.request.path # "/oauth") =>
        web.authenticated = "accepted"

\* a request was turned away and a later one with credentials was served data
\* of the domain
C9_Witness ==
    /\ ServedDomainData
    /\ web.request = [method |-> "GET", path |-> "/nodes.json"]
    /\ web.authenticated = "accepted"
    /\ Authentication = "oauth"
    /\ Live # {}

-----------------------------------------------------------------------------
(* Properties of the assignment queue *)

\* the place of the assignment object obj in the unfulfilled queue q (0: none)
PlaceIn(q, obj) ==
    IF \E i \in 1..Len(q) : q[i] = obj THEN Min({i \in 1..Len(q) : q[i] = obj}) ELSE 0

\* C11: when a node bound to a static assignment dies, the step that removes it
\* leaves the assignment in the queue ahead of every queued assignment of its
\* type, and a request for its type and pool made next is given that assignment.
C11_ReenqueuedAtFront ==
    [][\A u \in Live, obj \in DOMAIN assignments, type \in AssignmentTypes :
          (/\ u \notin DOMAIN nodes'
           /\ nodes[u].assignmentUUID \in DOMAIN allAssignments
           /\ allAssignments[nodes[u].assignmentUUID] = obj
           /\ assignments[obj].isStatic
           /\ assignments[obj].type = type) =>
              /\ PlaceIn(unfulfilledAssignments', obj) > 0
              /\ \A other \in DOMAIN assignments \ {obj} :
                    (assignments[other].type = type
                        /\ PlaceIn(unfulfilledAssignments', other) > 0) =>
                        PlaceIn(unfulfilledAssignments', obj)
                            < PlaceIn(unfulfilledAssignments', other)
              /\ deployableAssignmentForRequest(type, "")'.obj = obj]_vars

\* a static assignment that was given a new UUID when its node died waits in
\* the queue behind another assignment of its type
C11_Witness ==
    \E obj \in DOMAIN assignments, other \in DOMAIN assignments :
        /\ obj # other
        /\ assignments[obj].isStatic
        /\ assignments[obj].type = assignments[other].type
        /\ assignments[obj].uuid > GeneratedUuid(StartupUuids)
        /\ PlaceIn(unfulfilledAssignments, other) > 0
        /\ PlaceIn(unfulfilledAssignments, obj) > PlaceIn(unfulfilledAssignments, other)

\* the assignment object obj is of the agent type
IsAgentType(obj) == assignments[obj].type = "AgentType"

\* C12: in the unfulfilled queue no agent-type assignment precedes an
\* assignment of another type.
C12_MixersBeforeAgents ==
    \A i \in 1..Len(unfulfilledAssignments), j \in 1..Len(unfulfilledAssignments) :
        (i < j /\ IsAgentType(unfulfilledAssignments[i])) => IsAgentType(unfulfilledAssignments[j])

\* an uploaded script waits in the queue behind both mixers, one of which has
\* been handed out and has rotated
C12_Witness ==
    /\ Len(unfulfilledAssignments) = 3
    /\ IsAgentType(unfulfilledAssignments[3])
    /\ pendingAssignedNodes # <<>>

\* how often the assignment object obj occurs in the unfulfilled queue
TimesQueued(obj) ==
    Cardinality({i \in 1..Len(unfulfilledAssignments) : unfulfilledAssignments[i] = obj})

\* C13: every assignment is in exactly one of the states queued (once), bound
\* to one live node, or retired (neither), and _allAssignments holds every
\* assignment that is queued or bound under the UUID it carries.
C13_AssignmentStates ==
    \A obj \in DOMAIN assignments :
        /\ TimesQueued(obj) + Cardinality(BoundNodes(obj)) <= 1
        /\ TimesQueued(obj) + Cardinality(BoundNodes(obj)) = 1 =>
              /\ assignments[obj].uuid \in DOMAIN allAssignments
              /\ allAssignments[assignments[obj].uuid] = obj

\* one assignment is queued, another is bound to a live node and a third is
\* retired
C13_Witness ==
    \E queued \in DOMAIN assignments, bound \in DOMAIN assignments,
       retired \in DOMAIN assignments :
        /\ TimesQueued(queued) = 1
        /\ BoundNodes(bound) # {}
        /\ TimesQueued(retired) = 0 /\ BoundNodes(retired) = {}
        /\ assignments[retired].uuid \notin DOMAIN allAssignments

\* C14: an assignment made by POST /assignment is bound to at most one node at
\* a time; once a worker has taken it from the queue it never returns to the
\* queue and no further node is bound to it; and the step in which its node
\* dies takes it out of _allAssignments.
C14_EphemeralDiscarded ==
    [][\A obj \in DOMAIN assignments :
          ~assignments[obj].isStatic =>
              /\ Cardinality(BoundNodes(obj)) <= 1
              /\ ~InQueue(obj) =>
                    /\ ~InQueue(obj)'
                    /\ BoundNodes(obj)' \subseteq BoundNodes(obj)
                    /\ \A reqType \in AssignmentTypes \cup {"AllTypes"} :
                          deployableAssignmentForRequest(reqType, "")'.obj # obj
              /\ (BoundNodes(obj) # {} /\ BoundNodes(obj)' = {}) =>
                    assignments'[obj].uuid \notin DOMAIN allAssignments']_vars

\* the worker of an uploaded script has died while a second clone of the
\* script's assignment is still pending
C14_Witness ==
    \E obj \in DOMAIN assignments, c \in DOMAIN pendingAssignedNodes :
        /\ ~assignments[obj].isStatic
        /\ ~InQueue(obj)
        /\ BoundNodes(obj) = {}
        /\ pendingAssignedNodes[c] = assignments[obj].uuid

\* ---------------------------------------------------------------------------
\* Properties of the assignment request allow-list
\* ---------------------------------------------------------------------------

\* the senders an assignment request may come from
RequestSenders == {WorkerAddress, <<192, 168, 1, 7>>, <<127, 0, 4, 4>>, <<192, 169, 0, 1>>}

\* the address is 127.0.0.1 or lies in the configured subnet 192.168.0.0/16
InAllowListedSubnet(addr) == addr = <<127, 0, 0, 1>> \/ (addr[1] = 192 /\ addr[2] = 168)

\* C15: an assignment request from a sender in none of the allow-listed
\* subnets has no effect: no CreateAssignment packet is sent, the unfulfilled
\* queue keeps its order and no pending-assigned-node record is added
C15_DisallowedRequestIgnored ==
    [][\A senderAddr \in RequestSenders, reqType \in AssignmentTypes :
          (~InAllowListedSubnet(senderAddr)
             /\ ProcessRequestAssignmentPacket(senderAddr, reqType, ""))
          => /\ sent' = {}
             /\ unfulfilledAssignments' = unfulfilledAssignments
             /\ pendingAssignedNodes' = pendingAssignedNodes
             /\ allAssignments' = allAssignments
             /\ nodes' = nodes]_vars

\* a request from 192.169.0.1, next to the configured subnet, was turned away
\* while assignments waited in the queue
C15_Witness ==
    /\ disallowed = <<192, 169, 0, 1>>
    /\ Len(unfulfilledAssignments) >= 2
    /\ sent = {}

\* ---------------------------------------------------------------------------
\* Properties of the fan-out
\* ---------------------------------------------------------------------------

\* the packets of one kind among those the last step sent
SentOfKind(kind) == {p \in sent : p.kind = kind}

\* the live nodes other than x whose interest set holds the type of x
InterestedIn(ns, x, type) == {y \in DOMAIN ns : y # x /\ type \in ns[y].interestSet}

C17_RemovedNodeFanOut ==
    [][\A a \in DOMAIN nodes :
          ProcessNodeDisconnectRequestPacket(nodes[a].localID)
          => /\ a \notin DOMAIN nodes'
             /\ sent' = {[kind |-> "DomainServerRemovedNode", to |-> y, about |-> a,
                          list |-> {}] : y \in InterestedIn(nodes', a, nodes[a].type)}
             /\ \A p \in sent' : p.to # a /\ p.to \in DOMAIN nodes']_vars

\* a node asked to leave; one of the nodes that remain was told, another,
\* not interested in its type, was not
C17_Witness ==
    \E p \in SentOfKind("DomainServerRemovedNode") :
        /\ p.about \notin Live
        /\ p.to \in Live
        /\ \E y \in Live \ {p.to} : \A q \in sent : q.to # y

\* two live interface clients
LiveAgentPairs == {<<a, b>> \in Live \X Live : a # b /\ nodes[a].type = "Agent"
                                                    /\ nodes[b].type = "Agent"}

\* the secrets a node was sent for a peer in DomainList packets
ListedSecrets(to, peer) ==
    {e.secret : e \in {x \in UNION {p.list : p \in {q \in received : q.kind = "DomainList"
                                                                      /\ q.to = to}} :
                          x.peer = peer}}

\* the node was sent a DomainServerAddedNode about the peer
HeardAdded(to, peer) ==
    \E p \in received : p.kind = "DomainServerAddedNode" /\ p.to = to /\ p.about = peer

C19_NoSecretForDeadNode ==
    /\ \A m \in Live : \A x \in DOMAIN nodes[m].sessionSecretHash : x \in Live
    /\ \A p \in SentOfKind("DomainServerRemovedNode") :
          \A m \in Live : SecretOf(nodes, m, p.about) = NullUuid

\* a node that shared a secret with a live node has left, and the live node
\* still holds the secret it shares with a third
C19_Witness ==
    \E p \in SentOfKind("DomainServerRemovedNode") :
        /\ p.about \notin Live
        /\ p.to \in Live
        /\ DOMAIN nodes[p.to].sessionSecretHash # {}

\* ---------------------------------------------------------------------------
\* Properties of the entities file
\* ---------------------------------------------------------------------------

\* C20: the entities file is written only through the .replace swap: a step
\* that changes it is the open or the write of maybeHandleReplacementEntityFile
C20_WrittenOnlyBySwap ==
    [][files'.entities # files.entities => swap.pc \in {"open", "write"}]_vars

\* the process was never killed and no replacement is under way, yet the
\* entities file holds bytes that no swap writes
C20_Witness ==
    /\ swap.pc = "idle"
    /\ swap.killedAt = "none"
    /\ files.entities.exists
    /\ readOctreeDataInfoFromFile(files.entities) = NoScene

\* C21: if the .replace file cannot be deleted the swap is aborted and the
\* entities file is left as it was; a swap that writes the entities file has
\* removed .replace before, so that the next run finds nothing to replace
C21_SwapAbortsWhenNotRemoved ==
    [][/\ (swap.pc = "remove" /\ files'.replacement.exists)
             => /\ files' = files
                /\ swap'.pc \in {"idle", "down"}
       /\ (swap.pc \in {"open", "write"} /\ files'.entities # files.entities)
             => /\ ~files.replacement.exists
                /\ ~files'.replacement.exists
       /\ (swap.pc = "read" /\ swap.completed /\ ~files.replacement.exists
             /\ swap'.pc # "down")
             => swap'.pc = "idle" /\ files' = files]_vars

\* the remove failed: the process is idle again, the valid .replace file is
\* still there and no swap has written the entities file
C21_Witness ==
    /\ swap.pc = "idle"
    /\ readOctreeDataInfoFromFile(files.replacement) # NoScene
    /\ ~swap.completed
    /\ files.entities = [exists |-> TRUE, bytes |-> toGzippedByteArray(0)]

\* C22: invalid content leaves the previous good state intact: an upload whose
\* header does not parse writes no .replace file and queues no restart, and a
\* .replace file that does not parse leaves both files untouched
C22_InvalidContentIgnored ==
    [][/\ \A octreeFile \in UploadBodies :
             (readOctreeDataInfoFromData(octreeFile) = NoScene /\ UploadOpen(octreeFile))
             => /\ files' = files
                /\ swap'.pc = "idle"
       /\ (swap.pc = "read" /\ readOctreeDataInfoFromFile(files.replacement) = NoScene
             /\ swap'.pc # "down")
             => /\ files' = files
                /\ swap'.pc = "idle"]_vars

\* a killed upload left half a .replace file behind; the restarted server read
\* it and left it, and has since refused an upload that does not parse
C22_Witness ==
    /\ swap.pc = "idle"
    /\ swap.refused
    /\ swap.killedAt = "uploadWrite"
    /\ files.replacement.exists
    /\ readOctreeDataInfoFromFile(files.replacement) = NoScene
    /\ readOctreeDataInfoFromFile(files.entities) = 0

\* ---------------------------------------------------------------------------
\* Properties of the ICE heartbeat denials
\* ---------------------------------------------------------------------------

\* C23: the third heartbeat denial in a row asks for a new domain keypair and
\* sets the denial count to zero, an earlier one does not, and a heartbeat ACK
\* sets the denial count to zero
C23_ThirdDenialRegenerates ==
    [][/\ ProcessICEServerHeartbeatDenialPacket
             => IF denialsInARow = NUM_HEARTBEAT_DENIALS_FOR_KEYPAIR_REGEN - 1
                THEN ice'.keypairPending /\ ice'.numHeartbeatDenials = 0
                ELSE ice'.keypairPending = ice.keypairPending
       /\ ProcessICEServerHeartbeatACK(ice.iceServerSocket)
             => ice'.numHeartbeatDenials = 0]_vars

\* the ice-server has denied three heartbeats in a row and no new keypair has
\* been asked for
C23_Witness ==
    /\ denialsInARow = 3
    /\ ice.handler = "denial"
    /\ ice.hasPrivateKey
    /\ ~ice.keypairPending

\* a heartbeat of a temporary domain whose timer runs fails with the error
FailsOnTemporaryDomain(error) ==
    /\ HandleMetaverseHeartbeatError(error)
    /\ meta.type = "MetaverseTemporaryDomain"
    /\ meta.heartbeatTimer

\* C24: on a temporary domain every heartbeat failure with 401 asks for a new
\* temporary name as long as fewer than 5 names were asked for; once 5 were
\* asked for, no further name is asked for and no further heartbeat is sent
C24_FiveTemporaryNameAttempts ==
    [][/\ FailsOnTemporaryDomain("401") /\ meta.tempNamesRequested < MAX_ATTEMPTS
          => meta'.tempNamesRequested = meta.tempNamesRequested + 1
       /\ meta.tempNamesRequested >= MAX_ATTEMPTS
          => /\ meta'.tempNamesRequested = meta.tempNamesRequested
             /\ meta'.heartbeats <= meta.heartbeats]_vars

\* the fifth failure was handled after four names were asked for, and the server
\* is silent
C24_Witness ==
    /\ meta.type = "MetaverseTemporaryDomain"
    /\ meta.reply = "401"
    /\ meta.attempt = MAX_ATTEMPTS
    /\ meta.tempNamesRequested = MAX_ATTEMPTS - 1
    /\ ~meta.heartbeatTimer
    /\ meta.tempNameRequests = 0

\* a heartbeat fails with 404 while the timer runs
NotFoundHandled == HandleMetaverseHeartbeatError("404") /\ meta.heartbeatTimer

MismatchedConnectRequest(uuid, senderSockAddr) ==
    \E interest \in InterestSets, hashOK \in BOOLEAN :
        ReceiveConnectRequest(uuid, interest, senderSockAddr, FALSE, hashOK)

\* C26: a DomainConnectRequest whose header version is not the expected one is
\* answered with exactly one protocol-mismatch denial, sent to its sender, and
\* is dropped: no node, no pending assigned node and no secret is created and
\* no datagram of a handler is sent
C26_MismatchDeniedAndDropped ==
    [][\A uuid \in AgentUuids :
          MismatchedConnectRequest(uuid, AgentAddress(uuid)) =>
              /\ packetVerdict'.denials = <<AgentAddress(uuid)>>
              /\ packetVerdict'.verdict = "dropped"
              /\ nodes' = nodes
              /\ pendingAssignedNodes' = pendingAssignedNodes
              /\ sent' = {}]_vars

\* a mismatching connect request was denied and dropped while a node is live
C26_Witness ==
    /\ packetVerdict.verdict = "dropped"
    /\ ~packetVerdict.sourced
    /\ Len(packetVerdict.denials) = 1
    /\ packetVerdict.denials[1] = packetVerdict.sender
    /\ Live # {}

\* the callback carries a code and a state UUID that is in the pending state set
CallbackKnown(hasCode, stateUUID) ==
    hasCode /\ stateUUID # NullUuid /\ stateUUID \in web.webAuthenticationStateSet

\* C27: an OAuth callback is accepted only when it carries a code and its state
\* is in the pending state set; accepting it removes the state from the set and
\* holds the connection for the one token exchange, so that a replay of the
\* state, like an unknown or null state or an empty code, is answered with 400
\* and starts no exchange
C27_StateIsSingleUse ==
    [][\A hasCode \in BOOLEAN, stateUUID \in 0..MaxWebSessions :
          HandleHTTPSRequest(hasCode, stateUUID) =>
              /\ IF CallbackKnown(hasCode, stateUUID)
                 THEN /\ stateUUID \notin web'.webAuthenticationStateSet
                      /\ web'.pendingOAuthConnections =
                            web.pendingOAuthConnections \cup {stateUUID}
                      /\ web'.response = NoResponse
                 ELSE /\ web'.response.status = 400
                      /\ web'.pendingOAuthConnections = web.pendingOAuthConnections
                      /\ web'.webAuthenticationStateSet = web.webAuthenticationStateSet
              /\ web'.webAuthenticationStateSet \cap web'.pendingOAuthConnections = {}]_vars

\* a callback was accepted: its connection is held and its state is spent
C27_Witness ==
    /\ web.request = [method |-> "GET", path |-> "/oauth"]
    /\ web.response = NoResponse
    /\ web.pendingOAuthConnections # {}
    /\ web.webAuthenticationStateSet = {}

\* the user of the profile is an administrator under the settings
AdminUnderSettings(settings, profile) ==
    \/ profile.username \in settings.adminUsers.value
    \/ profile.roles \cap settings.adminRoles.value # {}

\* a page is requested with the cookie of a stored session while OAuth decides
RequestWithSession(cookieUUID) ==
    /\ \E basicAuth \in CredentialLists, requestedWithXHR \in BOOLEAN :
          HandleHTTPRequest("GET", "/nodes.json", NullUuid, cookieUUID, basicAuth,
                            requestedWithXHR)
    /\ Authentication = "oauth"
    /\ cookieUUID \in DOMAIN web.cookieSessionHash

\* a request with the cookie of a session is accepted exactly when the user of
\* the session is an administrator under the settings of that moment, and is
\* answered with 401 otherwise
SessionCheckedAtRequest ==
    \A cookieUUID \in 1..MaxWebSessions :
        RequestWithSession(cookieUUID) =>
            IF AdminUnderSettings(web.settings, web.cookieSessionHash[cookieUUID])
            THEN web'.authenticated = "accepted"
            ELSE web'.authenticated = "rejected" /\ web'.response.status = 401

\* C28 as stated: a session cookie is issued only for the profile of an
\* administrator, and a request with a session cookie is accepted only for an
\* administrator under the settings of the moment of the request
C28_CookieOnlyForAdmins ==
    [][/\ \A stateUUID \in 1..MaxWebSessions, profile \in Profiles :
             (HandleProfileRequestFinished(stateUUID, profile)
                 /\ web'.response = respond(302, "set cookie"))
             => AdminUnderSettings(web.settings, profile)
       /\ SessionCheckedAtRequest]_vars

\* C28: a session is stored and its cookie issued for every profile the
\* provider answers with, administrator or not; a request with the cookie of a
\* session is accepted exactly when its user is an administrator under the
\* settings of the moment of the request, and gets 401 otherwise
C28_SessionAdminAtRequest ==
    [][/\ \A stateUUID \in 1..MaxWebSessions, profile \in Profiles :
             HandleProfileRequestFinished(stateUUID, profile)
             => /\ web'.response = respond(302, "set cookie")
                /\ \E cookieUUID \in DOMAIN web'.cookieSessionHash :
                      /\ cookieUUID \notin DOMAIN web.cookieSessionHash
                      /\ web'.cookieSessionHash[cookieUUID] = profile
       /\ SessionCheckedAtRequest]_vars

\* a stored session whose user is no administrator under the settings, and a
\* request answered with 401
C28_Witness ==
    /\ Authentication = "oauth"
    /\ web.request = [method |-> "GET", path |-> "/nodes.json"]
    /\ web.authenticated = "rejected"
    /\ web.response.status = 401
    /\ \E cookieUUID \in DOMAIN web.cookieSessionHash :
          ~AdminUnderSettings(web.settings, web.cookieSessionHash[cookieUUID])

\* a page behind the authentication is requested
PageRequest(cookieUUID, basicAuth, requestedWithXHR) ==
    HandleHTTPRequest("GET", "/nodes.json", NullUuid, cookieUUID, basicAuth, requestedWithXHR)

\* OAuth is configured: a provider URL and one of the two lists
OAuthConfigured ==
    web.oauthProviderURL # "" /\ (web.settings.adminUsers.valid \/ web.settings.adminRoles.valid)

\* what OAuth answers a page request with
AnsweredByOAuth(cookieUUID, requestedWithXHR) ==
    IF cookieUUID \in DOMAIN web.cookieSessionHash
    THEN IF AdminUnderSettings(web.settings, web.cookieSessionHash[cookieUUID])
         THEN web'.authenticated = "accepted"
         ELSE web'.authenticated = "rejected" /\ web'.response.status = 401
    ELSE /\ web'.authenticated = "rejected"
         /\ web'.response.status = IF requestedWithXHR THEN 401 ELSE 302

\* the header names http_username and the SHA-256 hex of its password is the
\* stored http_password
HashedPasswordMatches(basicAuth) ==
    /\ Len(basicAuth) = 2
    /\ basicAuth[1] = web.settings.httpUsername.value
    /\ web.settings.httpPassword.valid
    /\ Sha256Hex(basicAuth[2]) = web.settings.httpPassword.value

\* the same with an empty password of the header standing for itself and a
\* missing http_password for the empty string
PasswordMatches(basicAuth) ==
    /\ Len(basicAuth) = 2
    /\ basicAuth[1] = web.settings.httpUsername.value
    /\ (IF basicAuth[2] = "" THEN "" ELSE Sha256Hex(basicAuth[2])) =
          (IF web.settings.httpPassword.valid THEN web.settings.httpPassword.value ELSE "")

\* C29 as stated: one strategy decides each request: OAuth when it is
\* configured, also beside basic credentials; otherwise basic authentication
\* when http_username is set, accepting only a matching username with a password
\* whose SHA-256 hex is the stored one and answering 401 with WWW-Authenticate
\* otherwise; otherwise every request is accepted
C29_OneStrategyHashedPassword ==
    [][\A cookieUUID \in 0..MaxWebSessions, basicAuth \in CredentialLists,
          requestedWithXHR \in BOOLEAN :
          PageRequest(cookieUUID, basicAuth, requestedWithXHR) =>
              IF OAuthConfigured THEN AnsweredByOAuth(cookieUUID, requestedWithXHR)
              ELSE IF web.settings.httpUsername.valid
              THEN /\ web'.authenticated = "accepted" => HashedPasswordMatches(basicAuth)
                   /\ web'.authenticated # "accepted"
                         => web'.response = respond(401, "WWW-Authenticate")
              ELSE web'.authenticated = "accepted"]_vars

\* C29: one strategy decides each request: OAuth when it is configured, also
\* beside basic credentials; otherwise basic authentication when http_username
\* is set, accepting exactly a matching username with a password whose SHA-256
\* hex is the stored one, or with an empty password when the stored one is
\* empty or missing, and answering 401 with WWW-Authenticate otherwise;
\* otherwise every request is accepted
C29_OneStrategy ==
    [][\A cookieUUID \in 0..MaxWebSessions, basicAuth \in CredentialLists,
          requestedWithXHR \in BOOLEAN :
          PageRequest(cookieUUID, basicAuth, requestedWithXHR) =>
              IF OAuthConfigured THEN AnsweredByOAuth(cookieUUID, requestedWithXHR)
              ELSE IF web.settings.httpUsername.valid
              THEN IF PasswordMatches(basicAuth)
                   THEN web'.authenticated = "accepted"
                   ELSE /\ web'.authenticated = "rejected"
                        /\ web'.response = respond(401, "WWW-Authenticate")
              ELSE web'.authenticated = "accepted"]_vars

\* basic authentication accepted a request with an empty password under
\* settings without http_password
C29_Witness ==
    /\ Authentication = "basic"
    /\ ~web.settings.httpPassword.valid
    /\ web.request = [method |-> "GET", path |-> "/nodes.json"]
    /\ web.authenticated = "accepted"

\* the queue entry at position i is of the requested type, or the request is
\* for all types, and is in the requested pool
EntryMatches(i, reqType, reqPool) ==
    LET entry == assignments[unfulfilledAssignments[i]]
    IN /\ (reqType = "AllTypes" \/ entry.type = reqType)
       /\ (entry.pool = reqPool \/ (entry.pool = "" /\ reqPool = ""))

\* C30: for every request, deployableAssignmentForRequest returns the first
\* entry of the queue, in queue order, whose type is the requested one (or the
\* request is for all types) and whose pool is the requested one; when no entry
\* matches it returns nothing and leaves the queue as it is
C30_FirstMatchDeployed ==
    \A reqType \in AssignmentTypes \cup {"AllTypes"}, reqPool \in RequestPools :
        LET d == deployableAssignmentForRequest(reqType, reqPool)
            matching == {i \in 1..Len(unfulfilledAssignments) : EntryMatches(i, reqType, reqPool)}
        IN IF matching = {}
           THEN d.obj = 0 /\ d.queue = unfulfilledAssignments
           ELSE \E i \in matching :
                   /\ \A j \in matching : i <= j
                   /\ d.obj = unfulfilledAssignments[i]

\* an assignment was handed out, and some request now gets an entry that is not
\* at the head of the queue while another request gets nothing
C30_Witness ==
    /\ DOMAIN pendingAssignedNodes # {}
    /\ Len(unfulfilledAssignments) >= 2
    /\ \E reqType \in AssignmentTypes, reqPool \in RequestPools :
          /\ deployableAssignmentForRequest(reqType, reqPool).obj # 0
          /\ deployableAssignmentForRequest(reqType, reqPool).obj # unfulfilledAssignments[1]
    /\ \E reqType \in AssignmentTypes, reqPool \in RequestPools :
          deployableAssignmentForRequest(reqType, reqPool).obj = 0

\* the UUIDs of the CreateAssignment datagrams of a set of datagrams
ClonesIn(packets) == {p.about : p \in {q \in packets : q.kind = "CreateAssignment"}}

\* the sequence q with the entry at position i taken out and put at the back
RotatedToBack(q, i) ==
    [k \in 1..Len(q) |-> IF k < i THEN q[k] ELSE IF k < Len(q) THEN q[k + 1] ELSE q[i]]

\* C31: a request that is answered with a CreateAssignment sends one clone,
\* whose UUID is that of no assignment, of no clone handed out before and of no
\* node; the original goes to the back of the queue, the other entries keeping
\* their order; the gatekeeper records the clone's UUID with the original's
\* UUID; and no assignment changes its UUID
C31_DeploymentClones ==
    [][\A reqType \in AssignmentTypes \cup {"AllTypes"}, reqPool \in RequestPools :
          (ProcessRequestAssignmentPacket(WorkerAddress, reqType, reqPool) /\ sent' # {}) =>
              \E clone \in ClonesIn(sent'), i \in 1..Len(unfulfilledAssignments) :
                  /\ ClonesIn(sent') = {clone}
                  /\ clone \notin UsedUuids
                  /\ clone \notin {assignments[k].uuid : k \in 1..Len(assignments)}
                  /\ clone \notin DOMAIN pendingAssignedNodes \cup DOMAIN nodes
                  /\ EntryMatches(i, reqType, reqPool)
                  /\ unfulfilledAssignments' = RotatedToBack(unfulfilledAssignments, i)
                  /\ DOMAIN pendingAssignedNodes' = DOMAIN pendingAssignedNodes \cup {clone}
                  /\ pendingAssignedNodes'[clone] = assignments[unfulfilledAssignments[i]].uuid
                  /\ \A c \in DOMAIN pendingAssignedNodes :
                        pendingAssignedNodes'[c] = pendingAssignedNodes[c]
                  /\ assignments' = assignments]_vars

\* a second clone of the assignment now at the back of a queue of two was sent
\* while the first clone is a live node or still pending
C31_Witness ==
    /\ ClonesIn(sent) # {}
    /\ Len(unfulfilledAssignments) >= 2
    /\ \E clone \in ClonesIn(sent) :
          /\ clone \in DOMAIN pendingAssignedNodes
          /\ pendingAssignedNodes[clone] =
                assignments[unfulfilledAssignments[Len(unfulfilledAssignments)]].uuid
    /\ Cardinality(DOMAIN pendingAssignedNodes \cup DOMAIN nodes) >= 2

\* the calls of sendHeartbeatToIceServer the event of the step makes: one by
\* the timer, one for each connection by a socket change and by the arrival of
\* a keypair once a heartbeat packet exists
SlotCalls ==
    IF ice'.handler = "heartbeat" THEN 1
    ELSE IF ice'.handler = "sockAddrChanged" THEN ice.signalConnections
    ELSE IF ice'.handler = "keypair" /\ ice.keypairPending /\ ice.heartbeatPacket
    THEN ice.signalConnections
    ELSE 0

\* a heartbeat is due in the step after three heartbeats to the selected
\* ice-server went without a reply, the keypair being at hand
FourthHeartbeatDue ==
    /\ ice.iceServerSocket # NullSocket
    /\ ice.hasPrivateKey \/ ice'.handler = "keypair"
    /\ ice.noReplyICEHeartbeats + SlotCalls > FAILOVER_NO_REPLY_ICE_HEARTBEATS

\* the heartbeats of the step that went to the socket selected after it
SentToSelected == {i \in DOMAIN ice'.heartbeatsSent : ice'.heartbeatsSent[i] = ice'.iceServerSocket}

SelectionStep ==
    \/ FourthHeartbeatDue
    \/ /\ ice'.handler = "hostInfo"
       /\ ice.iceAddressLookupID
       /\ ice.iceServerSocket = NullSocket
       /\ ice'.iceServerSocket # NullSocket

\* the resolved addresses that have not failed when the selection is made
SelectionCandidates ==
    Range(ice'.iceServerAddresses) \ (ice.failedIceServerAddresses \cup {ice.iceServerSocket})

\* C33: the selected ice-server address is never in the failed set; a selection
\* draws from the resolved addresses that have not failed, and when there is
\* none it empties the failed set and draws from all resolved addresses
C33_SelectedNeverFailed ==
    [][/\ ice'.iceServerSocket # NullSocket =>
             ice'.iceServerSocket \notin ice'.failedIceServerAddresses
       /\ SelectionStep =>
             IF SelectionCandidates # {}
             THEN /\ ice'.iceServerSocket \in SelectionCandidates
                  /\ ice'.failedIceServerAddresses =
                        ice.failedIceServerAddresses \cup ({ice.iceServerSocket} \ {NullSocket})
             ELSE /\ ice'.iceServerSocket \in Range(ice'.iceServerAddresses)
                  /\ ice'.failedIceServerAddresses = {}]_vars

\* every resolved address had failed: the failed set was emptied and an
\* address that had failed before is selected again
C33_Witness ==
    /\ ice.handler \in {"heartbeat", "keypair"}
    /\ Len(ice.heartbeatsSent) = 2
    /\ ice.noReplyICEHeartbeats = 1
    /\ ice.failedIceServerAddresses = {}
    /\ ice.iceServerSocket # NullSocket
    /\ Len(ice.iceServerAddresses) >= 2

\* the packets of one kind the step sends
NowSent(kind) == {p \in sent' : p.kind = kind}

\* the DomainServerAddedNode packets the peers hold for the pair after the step
AddedForPair(n, m) ==
    {q \in received' : /\ q.kind = "DomainServerAddedNode"
                       /\ <<q.to, q.about>> \in {<<n, m>>, <<m, n>>}}

\* C34: the DomainList sent to an authenticated node N lists exactly the live
\* nodes M other than N whose type is in N's interest set, each with the
\* secret of N and M, which is the secret every DomainServerAddedNode sent for
\* the pair carries; for a node that is not authenticated or whose interest
\* set is empty the list is empty
C34_DomainListContent ==
    [][\A p \in NowSent("DomainList") :
          /\ p.to \in DOMAIN nodes'
          /\ NowSent("DomainList") = {p}
          /\ IF nodes'[p.to].isAuthenticated /\ nodes'[p.to].interestSet # {}
             THEN /\ {e.peer : e \in p.list}
                        = {m \in DOMAIN nodes' \ {p.to} :
                              nodes'[m].type \in nodes'[p.to].interestSet}
                  /\ \A e \in p.list :
                        /\ e.secret # NullUuid
                        /\ e.secret = SecretOf(nodes', p.to, e.peer)
                        /\ \A q \in AddedForPair(p.to, e.peer) :
                              q.list = {[peer |-> q.about, secret |-> e.secret]}
             ELSE p.list = {}]_vars

\* a node asked for its list and was sent one naming a peer with the secret of
\* a DomainServerAddedNode sent for the pair before, while another live node
\* is not authenticated
C34_Witness ==
    \E p \in SentOfKind("DomainList") :
        /\ p.to \in Live
        /\ SentOfKind("DomainServerAddedNode") = {}
        /\ \E e \in p.list, q \in received :
              /\ q.kind = "DomainServerAddedNode"
              /\ <<q.to, q.about>> \in {<<p.to, e.peer>>, <<e.peer, p.to>>}
              /\ q.list = {[peer |-> q.about, secret |-> e.secret]}
        /\ \E x \in Live \ {p.to} : ~nodes[x].isAuthenticated

\* the requests the step puts on the wire to the metaverse that carry an
\* ice-server address other than 0.0.0.0
PublishedAsConnected ==
    {ice'.apiRequests[i] : i \in (DOMAIN ice'.apiRequests) \ (DOMAIN ice.apiRequests)}
        \ {ZeroAddress}

\* C35: the connected flag is set, and the address of the selected ice-server
\* is put in a request to the metaverse, only by the ACK of the selected
\* ice-server itself: the ACK of an ice-server selected before, arriving after
\* the failover, does neither
C35_ConnectedOnlyByOwnAck ==
    [][/\ (~ice.connectedToICEServer /\ ice'.connectedToICEServer)
             => ice'.handler = "ack" /\ ice'.ackFrom = ice.iceServerSocket
       /\ PublishedAsConnected # {}
             => /\ ice.connectedToICEServer \/ ice'.ackFrom = ice.iceServerSocket
                /\ PublishedAsConnected = {ice.iceServerSocket}]_vars

\* the ACK of an ice-server that failed arrived after the failover and the
\* selected ice-server, which has not replied, is held to be connected
C35_Witness ==
    /\ ice.handler = "ack"
    /\ ice.ackFrom \in ice.failedIceServerAddresses
    /\ ice.ackFrom # ice.iceServerSocket
    /\ ice.connectedToICEServer
    /\ Len(ice.apiRequests) > 0
    /\ ice.apiRequests[Len(ice.apiRequests)] = ice.iceServerSocket

\* the keys the all-assignments index holds an assignment under
KeysOf(obj) == {u \in DOMAIN allAssignments : allAssignments[u] = obj}

\* C36: in every reachable state each key of the all-assignments index is the
\* current UUID of the assignment it maps to and each assignment is held under
\* one key, so that no entry stays under a UUID a static assignment had before
\* it was rotated
C36_IndexKeyedByCurrentUuid ==
    /\ \A u \in DOMAIN allAssignments : assignments[allAssignments[u]].uuid = u
    /\ \A obj \in Range(allAssignments) : Cardinality(KeysOf(obj)) = 1

\* a static assignment is bound to a live node under its current UUID while
\* the index still holds it under the UUID it was parsed with
C36_Witness ==
    \E n \in Live, u \in DOMAIN allAssignments :
        /\ nodes[n].assignmentUUID # NullUuid
        /\ nodes[n].assignmentUUID \in DOMAIN allAssignments
        /\ allAssignments[nodes[n].assignmentUUID] = allAssignments[u]
        /\ assignments[allAssignments[u]].uuid = nodes[n].assignmentUUID
        /\ u # nodes[n].assignmentUUID

\* the nodes a packet of the step tells its receiver about
ToldAbout(p) ==
    IF p.kind = "DomainList" THEN {nodes'[e.peer] : e \in p.list}
    ELSE IF p.kind = "DomainServerAddedNode" THEN {nodes'[p.about]}
    ELSE IF p.kind = "DomainServerRemovedNode" THEN {nodes[p.about]}
    ELSE {}

\* C37: a DomainListRequest of an Agent node stores the declared interest set
\* without Agent, and that of another node stores the declared set; an Agent
\* whose stored interest set does not hold Agent is sent no DomainList naming
\* an Agent and no DomainServerAddedNode or DomainServerRemovedNode about one
C37_AgentsNotToldOfAgents ==
    [][/\ \A a \in {p.to : p \in NowSent("DomainList")} \cap DOMAIN nodes :
             \A interest \in InterestSets :
                ProcessListRequestPacket(a, interest)
                => nodes'[a].interestSet = IF nodes[a].type = "Agent"
                                          THEN interest \ {"Agent"} ELSE interest
       /\ \A p \in sent' :
             (/\ p.to \in DOMAIN nodes'
              /\ nodes'[p.to].type = "Agent"
              /\ "Agent" \notin nodes'[p.to].interestSet)
             => \A told \in ToldAbout(p) : told.type # "Agent"]_vars

\* an agent was admitted and announced to the audio mixer while another agent,
\* which had declared Agent and AvatarMixer in a list request, was not told
C37_Witness ==
    \E p \in SentOfKind("DomainServerAddedNode") :
        /\ p.about \in Live /\ nodes[p.about].type = "Agent"
        /\ p.to \in Live /\ nodes[p.to].type = "AudioMixer"
        /\ \E a \in Live \ {p.about} :
              /\ nodes[a].type = "Agent"
              /\ nodes[a].interestSet = {"AvatarMixer"}
              /\ \A q \in sent : q.to # a

\* the step handles the error reply to a heartbeat
HeartbeatErrorReply ==
    /\ meta'.heartbeats = meta.heartbeats - 1
    /\ meta'.reply \in HeartbeatErrors

\* C38: while the metaverse heartbeats are halted, the error reply to a
\* heartbeat starts no request for a temporary name and leaves the attempt
\* counter and the halt as they are; only a heartbeat error that halts the
\* heartbeats starts such a request, one at a time, and only
\* handleTempDomainSuccess ends the halt
C38_OneRequestPerHalt ==
    [][/\ (HeartbeatErrorReply /\ ~meta.heartbeatTimer)
             => /\ meta'.tempNamesRequested = meta.tempNamesRequested
                /\ meta'.tempNameRequests = meta.tempNameRequests
                /\ meta'.attempt = meta.attempt
                /\ ~meta'.heartbeatTimer
       /\ meta'.tempNamesRequested # meta.tempNamesRequested
             => /\ HeartbeatErrorReply
                /\ meta.heartbeatTimer /\ ~meta'.heartbeatTimer
                /\ meta'.tempNamesRequested = meta.tempNamesRequested + 1
                /\ meta'.attempt = meta.attempt + 1
       /\ (~meta.heartbeatTimer /\ meta'.heartbeatTimer)
             => /\ ice'.handler = "tempDomain"
                /\ meta.tempNameRequests > 0
                /\ meta'.tempNameRequests = meta.tempNameRequests - 1]_vars

\* the heartbeats are halted and one request for a temporary name is on the
\* wire; a heartbeat sent before was answered with 404 during the halt
C38_Witness ==
    /\ ~meta.heartbeatTimer
    /\ meta.haltedAtReply
    /\ meta.reply = "404"
    /\ meta.attempt = 1
    /\ meta.tempNamesRequested = 1
    /\ meta.tempNameRequests = 1

\* a local or public socket change, or the arrival of a new keypair once a
\* heartbeat packet exists, while an ice-server is selected and heartbeats
\* can be signed
HeartbeatEvent ==
    /\ ice.iceServerSocket # NullSocket
    /\ \/ ice'.handler = "sockAddrChanged" /\ ice.hasPrivateKey
       \/ ice'.handler = "keypair" /\ ice.keypairPending /\ ice.heartbeatPacket

\* C39: a socket change or a new keypair makes one call of
\* sendHeartbeatToIceServer, that is one increment of the no-reply counter,
\* however often setupICEHeartbeatForFullNetworking has run; so the ice-server
\* is given up only in a step that starts with three heartbeats unanswered
C39_OneHeartbeatPerEvent ==
    [][HeartbeatEvent =>
          IF ice.noReplyICEHeartbeats < FAILOVER_NO_REPLY_ICE_HEARTBEATS
          THEN /\ ice'.noReplyICEHeartbeats = ice.noReplyICEHeartbeats + 1
               /\ ice'.heartbeatsSent = <<ice.iceServerSocket>>
               /\ ice'.failedIceServerAddresses = ice.failedIceServerAddresses
          ELSE ice'.noReplyICEHeartbeats = 1]_vars

\* setupICEHeartbeatForFullNetworking has run twice and one socket change sent
\* two heartbeats to the ice-server, which had answered all heartbeats before
C39_Witness ==
    /\ ice.handler = "sockAddrChanged"
    /\ ice.signalConnections = 2
    /\ ice.heartbeatsSent = <<ice.iceServerSocket, ice.iceServerSocket>>
    /\ ice.noReplyICEHeartbeats = 2
    /\ ice.failedIceServerAddresses = {}

\* C40: randomizeICEServerAddress never draws from an empty list: whenever an
\* ice-server is selected, and so whenever a failover can run, the list of
\* resolved addresses is not empty, also after a lookup that failed or found
\* no address; and each run, from handleICEHostInfo or from the failover,
\* leaves a selected socket taken from the resolved list
C40_CandidatesNeverEmpty ==
    [][/\ ice'.iceServerSocket # NullSocket => ice'.iceServerAddresses # <<>>
       /\ SelectionStep
             => /\ ice'.iceServerAddresses # <<>>
                /\ ice'.iceServerSocket # NullSocket
                /\ ice'.iceServerSocket \in Range(ice'.iceServerAddresses)
       /\ (ice'.handler = "hostInfo" /\ ice.iceServerAddresses # <<>>)
             => ice'.iceServerAddresses # <<>>]_vars

\* a failover selected an ice-server while the lookup it started was still
\* running, after a lookup had come back without an address
C40_Witness ==
    /\ ice.handler \in {"heartbeat", "sockAddrChanged"}
    /\ ice.failedIceServerAddresses # {}
    /\ ice.iceServerSocket # NullSocket
    /\ ice.iceServerSocket \notin ice.failedIceServerAddresses
    /\ ice.iceAddressLookupID
    /\ ice.lookupRetryTimers > 0
====
